---- MODULE Spec2Model ----
(***************************************************************************)
(* State-machine model of the round lifecycle of the impetus pallets:      *)
(*   lucky-number  src/pallets/lucky-number/src/lib.rs                     *)
(*   lottery       src/blockchain/pallets/lottery/src/lib.rs               *)
(*   giveaway      src/pallets/giveaway/src/lib.rs                         *)
(* Each pallet has its own storage; the variable `pallet` records which    *)
(* pallet a behaviour exercises.  Every dispatchable is one action: a call *)
(* that returns Err leaves storage untouched (FRAME runs a dispatchable in *)
(* a storage transaction) and only records its error in `ret`.             *)
(***************************************************************************)
EXTENDS Integers, Sequences, FiniteSets, TLC

\* ------------------------------------------------------------------------
\* Bounds of the model
\* ------------------------------------------------------------------------
\* largest value of T::BlockNumber (reduced integer width)
BlockNumberMax == 3
\* rounds the model opens: the hook resolves rounds 0 .. MaxRound - 1
MaxRound == 1
\* capacity of the bounded participant collections (T::MaxSet / T::MaxParticipants)
MaxSet == 1

\* ------------------------------------------------------------------------
\* Program constants
\* ------------------------------------------------------------------------
ExistentialDeposit == 1
PotDeposit == 1

Accounts == {"a1", "a2"}
Pot == "pot"
NoAccount == "none"
Holders == Accounts \cup {Pot}
\* the balances at genesis: the pot account does not exist yet
InitialBalance == [a \in Holders |-> IF a = Pot THEN 0 ELSE 2]

\* Option<T>: None is the empty tuple, Some(x) the one-element tuple
None == << >>
Some(x) == <<x>>
IsSome(o) == o # << >>
Unwrap(o) == o[1]

Min(a, b) == IF a < b THEN a ELSE b

\* BlockNumber::saturating_add
SatAdd(a, b) == Min(a + b, BlockNumberMax)

VARIABLES
    pallet,          \* the pallet this behaviour exercises
    block_number,    \* frame_system::Pallet::block_number()
    balance,         \* T::Currency free balance of every account
    ret,             \* the last call: its name, arguments and result
    events,          \* the events deposited by the last call
    \* lucky-number storage
    lnRound, lnLottery, lnParticipants, lnWinners, lnUserPredictionValue,
    \* history: per (winner, round) the outcome of the claim_reward transfers so far
    lnClaimLog,
    \* history: per (round, account, number) the amounts of the successful buy_ticket calls, summed
    lnStakeSum,
    \* history: the rewards the successful claim_reward transfers have paid, summed
    lnPaid,
    \* lottery storage
    ltLotteryIndex, ltLottery, ltParticipants,
    \* lottery, choose_ticket: the argument total, T::MaxGenerateRandom, the
    \* hash T::Randomness returns per seed, and what the call has returned
    ltTotal, ltMaxGenerateRandom, ltRandomness, ltChosen,
    \* giveaway storage
    gaGiveawayIndex, gaGiveaway, gaParticipants, gaTotalParticipantByGiveaway,
    gaGiveawayToUser, gaBlockToGiveaway, gaBlockToResults, gaRoundWinner,
    \* did storage (read by the giveaway pallet)
    didPalletManager, didExternalIdAddress,
    \* history: what claim_reward has paid out of the giveaway pot, per round
    gaPaid

sharedVars == <<pallet, block_number, balance, ret, events>>
lnStorage == <<lnRound, lnLottery, lnParticipants, lnWinners, lnUserPredictionValue>>
lnVars == <<lnStorage, lnClaimLog, lnStakeSum, lnPaid>>
ltStorage == <<ltLotteryIndex, ltLottery, ltParticipants>>
ltDraw == <<ltTotal, ltMaxGenerateRandom, ltRandomness, ltChosen>>
ltVars == <<ltStorage, ltDraw>>
gaStorage == <<gaGiveawayIndex, gaGiveaway, gaParticipants, gaTotalParticipantByGiveaway,
               gaGiveawayToUser, gaBlockToGiveaway, gaBlockToResults, gaRoundWinner>>
didVars == <<didPalletManager, didExternalIdAddress>>
gaVars == <<gaStorage, didVars, gaPaid>>
vars == <<sharedVars, lnVars, ltVars, gaVars>>

\* ------------------------------------------------------------------------
\* The ledger collaborator: T::Currency
\* ------------------------------------------------------------------------
\* Currency::transfer(from, to, value, KeepAlive): the error it returns
TransferError(bal, from, to, value) ==
    IF value = 0 \/ from = to THEN "Ok"
    ELSE IF bal[from] < value THEN "InsufficientBalance"
    ELSE IF bal[to] + value < ExistentialDeposit THEN "ExistentialDeposit"
    ELSE IF bal[from] - value < ExistentialDeposit THEN "KeepAlive"
    ELSE "Ok"

\* the balances after a transfer that returned Ok
Transfer(bal, from, to, value) ==
    IF from = to THEN bal
    ELSE [bal EXCEPT ![from] = @ - value, ![to] = @ + value]

\* Currency::deposit_creating(who, value): mints value unless the account
\* would stay below the existential deposit
DepositCreating(bal, who, value) ==
    IF value = 0 \/ bal[who] + value < ExistentialDeposit THEN bal
    ELSE [bal EXCEPT ![who] = @ + value]

NoCall == [op |-> "none", who |-> NoAccount, round |-> 0, number |-> 0,
           amount |-> 0, err |-> "Ok", detail |-> ""]
Call(op, who, round, number, amount, err) ==
    [op |-> op, who |-> who, round |-> round, number |-> number,
     amount |-> amount, err |-> err, detail |-> ""]
\* a dispatchable that returned Err: only its name and error are recorded
Failed(op, err) == Call(op, NoAccount, 0, 0, 0, err)

\* ========================================================================
\* lucky-number pallet
\* ========================================================================
\* inputs of the dispatchables
LnNumbers == {0, 1}
LnNumberInputs == {0, 1, 100}
LnAmounts == {1}
LnMinPrices == {2}
LnLengths == {1, BlockNumberMax}
LnDelays == {0, 1}
LnRates == {2, 99}
\* values the randomness source may return for a seed
RandomValues == {0, 100, 101}
RoundIds == 0 .. MaxRound

LotteryConfig(min_price, start, length, delay, rate, repeat) ==
    [min_price |-> min_price, start |-> start, length |-> length,
     delay |-> delay, rate |-> rate, repeat |-> repeat]

\* ValueQuery reads: a missing key reads as the default value
LnParticipantsGet(parts, round, number) ==
    IF <<round, number>> \in DOMAIN parts THEN parts[<<round, number>>] ELSE {}
LnUserPredictionValueGet(upv, round, who, number) ==
    IF <<round, who, number>> \in DOMAIN upv THEN upv[<<round, who, number>>] ELSE 0

\* random_number(index): the draw of the randomness source reduced mod 100
random_number_salted(rnd) == (rnd + block_number) % 100
random_number(rnd) == rnd % 100

\* payout block of a round: start + length + delay, saturating
payout_block_unsaturated(config) == config.start + config.length + config.delay
payout_block_early(config) == SatAdd(config.start, config.length)
payout_block(config) == SatAdd(SatAdd(config.start, config.length), config.delay)

LnInit ==
    /\ lnRound = 0
    /\ lnLottery = [r \in RoundIds |-> None]
    /\ lnParticipants = [k \in RoundIds \X LnNumbers |-> {}]
    /\ lnWinners = [r \in RoundIds |-> {}]
    /\ lnUserPredictionValue = [k \in RoundIds \X Accounts \X LnNumbers |-> 0]
    /\ lnClaimLog = [k \in Accounts \X RoundIds |-> "none"]
    /\ lnStakeSum = [k \in RoundIds \X Accounts \X LnNumbers |-> 0]
    /\ lnPaid = 0

\* the config the hook inserts at the next round when the round repeats
ln_successor_config_unmoved(config, n) == config
ln_successor_config(config, n) ==
    LotteryConfig(config.min_price, n, config.length, config.delay, config.rate,
                  config.repeat)

\* Hooks::on_initialize(n), run when block n starts; rnd is the value the
\* randomness source returns for the seed of the round
ln_on_initialize_call(rnd) ==
    /\ pallet = "lucky-number"
    /\ block_number < BlockNumberMax
    /\ LET n == block_number + 1
           round == lnRound
           lottery == lnLottery[round]
       IN  /\ block_number' = n
           /\ UNCHANGED <<pallet, balance, lnUserPredictionValue, lnClaimLog, lnStakeSum, lnPaid, ltVars, gaVars>>
           /\ IsSome(lottery) /\ payout_block(Unwrap(lottery)) <= n => round < MaxRound
           /\ IF IsSome(lottery) /\ payout_block(Unwrap(lottery)) <= n
              THEN   LET config == Unwrap(lottery)
                         number == random_number(rnd)
                         winners_from_participants ==
                             LnParticipantsGet(lnParticipants, round, number)
                         next_round == round + 1
                     IN  /\ lnWinners' = [lnWinners EXCEPT ![round] = winners_from_participants]
                         /\ lnParticipants' = [lnParticipants EXCEPT ![<<round, number>>] = {}]
                         /\ lnRound' = next_round
                         /\ lnLottery' =
                              IF config.repeat
                              THEN [lnLottery EXCEPT ![next_round] =
                                      Some(ln_successor_config(config, n))]
                              ELSE lnLottery
                         /\ events' =
                              <<[kind |-> "RandomNumberGenerated", round |-> round, number |-> number]>>
                              \o (IF config.repeat
                                  THEN <<[kind |-> "RoundStarted", round |-> next_round]>>
                                  ELSE << >>)
                         /\ ret' = Call("on_initialize", NoAccount, round, number, 0, "Ok")
              ELSE /\ UNCHANGED <<lnRound, lnLottery, lnParticipants, lnWinners>>
                   /\ events' = << >>
                   /\ ret' = Failed("on_initialize", "Idle")

ln_on_initialize == \E rnd \in RandomValues : ln_on_initialize_call(rnd)

\* the error buy_ticket(caller, number, amount) returns, "Ok" on success
ln_buy_ticket_error(caller, number, amount) ==
    IF ~(number < 100) THEN "InvalidNumber"
    ELSE IF ~IsSome(lnLottery[lnRound]) THEN "NotConfigured"
    ELSE IF ~(block_number <= SatAdd(Unwrap(lnLottery[lnRound]).start,
                                     Unwrap(lnLottery[lnRound]).length))
         THEN "AlreadyEnded"
    ELSE IF /\ caller \notin LnParticipantsGet(lnParticipants, lnRound, number)
            /\ Cardinality(LnParticipantsGet(lnParticipants, lnRound, number)) >= MaxSet
         THEN "TooManyParticipants"
    ELSE TransferError(balance, caller, Pot, amount)

\* UserPredictionValue as the closure of buy_ticket has written it when it
\* reaches the transfer: inserted for a new participant, increased otherwise
ln_upv_written_first_round(caller, number, amount) ==
    [lnUserPredictionValue EXCEPT ![<<0, caller, number>>] = @ + amount]
ln_upv_written_overwritten(caller, number, amount) ==
    [lnUserPredictionValue EXCEPT ![<<lnRound, caller, number>>] = amount]
ln_upv_written(caller, number, amount) ==
    [lnUserPredictionValue EXCEPT ![<<lnRound, caller, number>>] =
        IF caller \in LnParticipantsGet(lnParticipants, lnRound, number)
        THEN @ + amount ELSE amount]

\* the dispatchable runs in a storage layer: when it returns Err the writes
\* made so far are discarded
ln_upv_after_failed_call_kept(before, written) == written
ln_upv_after_failed_call(before, written) == before

\* buy_ticket(origin = Signed(caller), number, amount)
ln_buy_ticket_call(caller, number, amount) ==
    /\ pallet = "lucky-number"
    /\   LET err == ln_buy_ticket_error(caller, number, amount)
             round == lnRound
             participants == LnParticipantsGet(lnParticipants, round, number)
         IN  /\ ret' = IF err = "Ok" THEN Call("buy_ticket", caller, round, number, amount, err)
                       ELSE Failed("buy_ticket", err)
             /\ UNCHANGED <<pallet, block_number, lnRound, lnLottery, lnWinners, lnClaimLog, lnPaid,
                            ltVars, gaVars>>
             /\ IF err = "Ok"
                THEN /\ lnParticipants' =
                          [lnParticipants EXCEPT ![<<round, number>>] = participants \cup {caller}]
                     /\ lnUserPredictionValue' = ln_upv_written(caller, number, amount)
                     /\ lnStakeSum' = [lnStakeSum EXCEPT ![<<round, caller, number>>] = @ + amount]
                     /\ balance' = Transfer(balance, caller, Pot, amount)
                     /\ events' = <<[kind |-> "TicketBought", round |-> round, who |-> caller,
                                     amount |-> amount, number |-> number]>>
                ELSE /\ UNCHANGED <<lnParticipants, balance, lnStakeSum>>
                     /\ lnUserPredictionValue' =
                          IF err \in {"InsufficientBalance", "ExistentialDeposit", "KeepAlive"}
                          THEN ln_upv_after_failed_call(lnUserPredictionValue,
                                                        ln_upv_written(caller, number, amount))
                          ELSE lnUserPredictionValue
                     /\ events' = << >>

ln_buy_ticket ==
    \E caller \in Accounts, number \in LnNumberInputs, amount \in LnAmounts :
        ln_buy_ticket_call(caller, number, amount)

\* the error start_lottery(min_price, length, delay, rate, repeat) returns
ln_start_lottery_error_unchecked(rate) ==
    IF ~(rate < 99) THEN "CannotSetRate" ELSE "Ok"
ln_start_lottery_error(rate) ==
    IF IsSome(lnLottery[lnRound]) THEN "InProgress"
    ELSE IF ~(rate < 99) THEN "CannotSetRate"
    ELSE "Ok"

\* the balances after start_lottery has funded a pot that holds nothing
ln_balance_after_start_always(bal) == DepositCreating(bal, Pot, PotDeposit)
ln_balance_after_start(bal) ==
    IF bal[Pot] = 0 THEN DepositCreating(bal, Pot, PotDeposit) ELSE bal

\* start_lottery(origin = manager, min_price, length, delay, rate, repeat)
ln_start_lottery_call(min_price, length, delay, rate, repeat) ==
    /\ pallet = "lucky-number"
    /\   LET err == ln_start_lottery_error(rate)
             round == lnRound
         IN  /\ ret' = IF err = "Ok" THEN Call("start_lottery", NoAccount, round, 0, 0, err)
                       ELSE Failed("start_lottery", err)
             /\ UNCHANGED <<pallet, block_number, lnRound, lnParticipants, lnWinners,
                            lnUserPredictionValue, lnClaimLog, lnStakeSum, lnPaid, ltVars, gaVars>>
             /\ IF err = "Ok"
                THEN /\ lnLottery' = [lnLottery EXCEPT ![round] =
                          Some(LotteryConfig(min_price, block_number, length, delay, rate, repeat))]
                     /\ balance' = ln_balance_after_start(balance)
                     /\ events' = <<[kind |-> "RoundStarted", round |-> round]>>
                ELSE /\ UNCHANGED <<lnLottery, balance>>
                     /\ events' = << >>

ln_start_lottery ==
    \E min_price \in LnMinPrices, length \in LnLengths, delay \in LnDelays,
       rate \in LnRates, repeat \in BOOLEAN :
        ln_start_lottery_call(min_price, length, delay, rate, repeat)

\* what the closure of claim_reward returns before it attempts the transfer
ln_claim_reward_error_anyone(who, round) ==
    IF ~IsSome(lnLottery[round]) THEN "NotConfigured" ELSE "Ok"
ln_claim_reward_error(who, round) ==
    IF who \notin lnWinners[round] THEN "InvalidCall"
    ELSE IF ~IsSome(lnLottery[round]) THEN "NotConfigured"
    ELSE "Ok"

\* reward = staked amount * rate
ln_reward(who, round, number) ==
    LnUserPredictionValueGet(lnUserPredictionValue, round, who, number)
        * Unwrap(lnLottery[round]).rate

\* the winner set claim_reward writes back: the Ok arm of the transfer removes
\* the winner, the Err arm leaves the set alone
ln_winners_after_claim_kept(winners, who) == winners
ln_winners_after_claim(winners, who) == winners \ {who}
ln_winners_after_failed_claim_removed(winners, who) == winners \ {who}
ln_winners_after_failed_claim(winners, who) == winners

\* claim_reward(origin = manager, who, round, number)
ln_claim_reward_call(who, round, number) ==
    /\ pallet = "lucky-number"
    /\ LET err == ln_claim_reward_error(who, round)
       IN  /\ UNCHANGED <<pallet, block_number, lnRound, lnLottery, lnParticipants,
                          lnUserPredictionValue, ltVars, gaVars>>
           /\ UNCHANGED lnStakeSum
           /\ IF err = "Ok"
              THEN LET reward == ln_reward(who, round, number)
                       terr == TransferError(balance, Pot, who, reward)
                   IN  /\ ret' = Call("claim_reward", who, round, number, reward, "Ok")
                       /\ IF terr = "Ok"
                          THEN /\ balance' = Transfer(balance, Pot, who, reward)
                               /\ lnPaid' = lnPaid + reward
                               /\ lnWinners' = [lnWinners EXCEPT ![round] =
                                                  ln_winners_after_claim(@, who)]
                               /\ lnClaimLog' = [lnClaimLog EXCEPT ![<<who, round>>] =
                                                  IF @ = "none" THEN "paid" ELSE "paid_after_failure"]
                               /\ events' = <<[kind |-> "RewardClaimed", round |-> round,
                                               who |-> who, amount |-> reward]>>
                          ELSE /\ UNCHANGED <<balance, lnPaid>>
                               /\ lnWinners' = [lnWinners EXCEPT ![round] =
                                                  ln_winners_after_failed_claim(@, who)]
                               /\ lnClaimLog' = [lnClaimLog EXCEPT ![<<who, round>>] = "failed"]
                               /\ events' = <<[kind |-> "RewardClaimedFailed", round |-> round,
                                               who |-> who, amount |-> reward, error |-> terr]>>
              ELSE /\ ret' = Call("claim_reward", who, round, 0, 0, err)
                   /\ UNCHANGED <<balance, lnWinners, lnClaimLog, lnPaid>>
                   /\ events' = << >>

ln_claim_reward ==
    \E who \in Accounts, round \in RoundIds, number \in LnNumbers :
        ln_claim_reward_call(who, round, number)

LnNext == ln_on_initialize \/ ln_buy_ticket \/ ln_start_lottery \/ ln_claim_reward

\* ========================================================================
\* lottery pallet
\* ========================================================================
\* largest value of the u32 lottery index (reduced integer width)
IndexMax == 2
\* capacity of BoundedVec<AccountId, T::MaxParticipants>
MaxParticipants == 2

LtKinds == {"k1"}
LtIndices == 0 .. IndexMax
LtSelections == {"s1"}
LtPrices == {1}
LtLengths == {1, 2}
LtDelays == {1}
\* the balances at genesis of the lottery runtime
LtInitialBalance == [a \in Holders |-> IF a = Pot THEN 0 ELSE IF a = "a1" THEN 3 ELSE 2]

LtConfig(price, start, length, delay, repeat) ==
    [price |-> price, start |-> start, length |-> length, delay |-> delay,
     repeat |-> repeat]

\* u32::MAX (2^32 - 1 in the program, reduced integer width here)
U32Max == 2^3 - 1
\* the largest T::MaxGenerateRandom of the runs
BudgetMax == 3
LtTotals == 0 .. U32Max
LtBudgets == 0 .. BudgetMax
\* the seeds a call can request
LtSeeds == 0 .. BudgetMax - 1
\* hashes the randomness source may return; one is wider than a u32
LtHashes == {0, 2, 5, 6, 7, U32Max + 1 + 6}
\* choose_ticket has not been called
LtNotChosen == [called |-> FALSE, value |-> None, seeds |-> << >>]

LtStorageInit ==
    /\ ltLotteryIndex = [k \in LtKinds |-> 0]
    /\ ltLottery = [k \in LtKinds \X LtIndices |-> None]
    /\ ltParticipants = [k \in LtKinds \X LtIndices \X LtSelections |-> << >>]

\* the inputs of a choose_ticket call that has not been made yet
LtDrawInit(total, budget, randomness) ==
    /\ ltTotal = total
    /\ ltMaxGenerateRandom = budget
    /\ ltRandomness = randomness
    /\ ltChosen = LtNotChosen

LtInit == LtStorageInit /\ LtDrawInit(0, 0, [seed \in LtSeeds |-> 0])

\* a block passes; the pallet has no hook
lt_next_block ==
    /\ pallet = "lottery"
    /\ block_number < BlockNumberMax
    /\ block_number' = block_number + 1
    /\ ret' = Call("next_block", NoAccount, 0, 0, 0, "Ok")
    /\ events' = << >>
    /\ UNCHANGED <<pallet, balance, lnVars, ltVars, gaVars>>

\* the slot start_lottery tests for InProgress: the one at the kind's index
lt_start_slot(kind) == <<kind, ltLotteryIndex[kind]>>

\* the error start_lottery(kind, ...) returns
lt_start_lottery_error(kind) ==
    IF IsSome(ltLottery[lt_start_slot(kind)]) THEN "InProgress"
    ELSE IF ltLotteryIndex[kind] = IndexMax THEN "Overflow"
    ELSE "Ok"

\* start_lottery(origin = manager, kind, price, length, delay, repeat)
lt_start_lottery_call(kind, price, length, delay, repeat) ==
    /\ pallet = "lottery"
    /\ LET err == lt_start_lottery_error(kind)
           index == ltLotteryIndex[kind]
       IN  /\ UNCHANGED <<pallet, block_number, ltParticipants, ltDraw, lnVars, gaVars>>
           /\ IF err = "Ok"
              THEN /\ ltLottery' = [ltLottery EXCEPT ![<<kind, index>>] =
                        Some(LtConfig(price, block_number, length, delay, repeat))]
                   /\ ltLotteryIndex' = [ltLotteryIndex EXCEPT ![kind] = index + 1]
                   /\ balance' = IF balance[Pot] = 0
                                 THEN DepositCreating(balance, Pot, ExistentialDeposit)
                                 ELSE balance
                   /\ ret' = Call("start_lottery", NoAccount, index, 0, 0, "Ok")
                   /\ events' = <<[kind |-> "LotteryStarted", lottery |-> kind, index |-> index]>>
              ELSE /\ UNCHANGED <<ltLottery, ltLotteryIndex, balance>>
                   /\ ret' = Failed("start_lottery", err)
                   /\ events' = << >>

lt_start_lottery ==
    \E kind \in LtKinds, price \in LtPrices, length \in LtLengths, delay \in LtDelays,
       repeat \in BOOLEAN :
        lt_start_lottery_call(kind, price, length, delay, repeat)

\* the error do_buy_ticket(caller, kind, index, selection) returns
lt_do_buy_ticket_error_unbounded(caller, kind, index, selection) ==
    IF ~IsSome(ltLottery[<<kind, index>>]) THEN "NotConfigured"
    ELSE IF ~(block_number < SatAdd(Unwrap(ltLottery[<<kind, index>>]).start,
                                    Unwrap(ltLottery[<<kind, index>>]).length))
         THEN "AlreadyEnded"
    ELSE TransferError(balance, caller, Pot, Unwrap(ltLottery[<<kind, index>>]).price)
lt_do_buy_ticket_error(caller, kind, index, selection) ==
    IF ~IsSome(ltLottery[<<kind, index>>]) THEN "NotConfigured"
    ELSE IF ~(block_number < SatAdd(Unwrap(ltLottery[<<kind, index>>]).start,
                                    Unwrap(ltLottery[<<kind, index>>]).length))
         THEN "AlreadyEnded"
    ELSE IF Len(ltParticipants[<<kind, index, selection>>]) >= MaxParticipants
         THEN "TooManyParticipants"
    ELSE TransferError(balance, caller, Pot, Unwrap(ltLottery[<<kind, index>>]).price)

\* buy_ticket(origin = Signed(caller), kind, index, selection): the result of
\* do_buy_ticket is dropped and the extrinsic returns Ok
\* buy_ticket discards the result of do_buy_ticket and returns Ok(())
lt_buy_ticket_result_propagated(inner) == inner
lt_buy_ticket_result(inner) == "Ok"

lt_buy_ticket_call(caller, kind, index, selection) ==
    /\ pallet = "lottery"
    /\ LET inner == lt_do_buy_ticket_error(caller, kind, index, selection)
       IN  /\ UNCHANGED <<pallet, block_number, ltLottery, ltLotteryIndex, ltDraw, lnVars,
                          gaVars>>
           /\ IF inner = "Ok"
              THEN /\ balance' = Transfer(balance, caller, Pot,
                                          Unwrap(ltLottery[<<kind, index>>]).price)
                   /\ ltParticipants' = [ltParticipants EXCEPT ![<<kind, index, selection>>] =
                                            Append(@, caller)]
                   /\ ret' = [Call("buy_ticket", caller, index, 0,
                                   Unwrap(ltLottery[<<kind, index>>]).price,
                                   lt_buy_ticket_result(inner))
                                 EXCEPT !.detail = "Ok"]
                   /\ events' = <<[kind |-> "TicketBought", lottery |-> kind, index |-> index,
                                   user |-> caller, selection |-> selection]>>
              ELSE /\ UNCHANGED <<balance, ltParticipants>>
                   /\ ret' = [Failed("buy_ticket", lt_buy_ticket_result(inner))
                                 EXCEPT !.detail = inner]
                   /\ events' = << >>

lt_buy_ticket ==
    \E caller \in Accounts, kind \in LtKinds, index \in LtIndices, selection \in LtSelections :
        lt_buy_ticket_call(caller, kind, index, selection)

LtNext == lt_next_block \/ lt_start_lottery \/ lt_buy_ticket

\* generate_random_number(seed): the first four bytes of the hash, as a u32
generate_random_number(seed) == ltRandomness[seed] % (U32Max + 1)

\* the bound below which a draw is free of modulus bias
lt_unbiased_bound_whole(total) == U32Max
lt_unbiased_bound(total) == U32Max - (U32Max % total)

\* the ticket a draw selects
lt_ticket_of_draw_unreduced(drawn, total) == drawn
lt_ticket_of_draw(drawn, total) == drawn % total

\* the loop `for i in 1..T::MaxGenerateRandom::get()` of choose_ticket from
\* its iteration i on; seeds lists the seeds drawn so far
RECURSIVE lt_choose_ticket_loop(_, _, _, _)
lt_choose_ticket_loop(total, i, drawn, seeds) ==
    IF ~(i < ltMaxGenerateRandom) THEN [random_number |-> drawn, seeds |-> seeds]
    ELSE IF drawn < lt_unbiased_bound(total)
         THEN [random_number |-> drawn, seeds |-> seeds]
    ELSE lt_choose_ticket_loop(total, i + 1, generate_random_number(i), Append(seeds, i))

\* choose_ticket(total): the Option it returns, with the seeds it has drawn
choose_ticket(total) ==
    IF total = 0 THEN [called |-> TRUE, value |-> None, seeds |-> << >>]
    ELSE LET out == lt_choose_ticket_loop(total, 1, generate_random_number(0), <<0>>)
         IN  [called |-> TRUE,
              value |-> Some(lt_ticket_of_draw(out.random_number, total)),
              seeds |-> out.seeds]

\* a call of choose_ticket(total)
lt_choose_ticket ==
    /\ pallet = "lottery"
    /\ ~ltChosen.called
    /\ ltChosen' = choose_ticket(ltTotal)
    /\ ret' = Call("choose_ticket", NoAccount, 0, ltTotal, 0, "Ok")
    /\ events' = << >>
    /\ UNCHANGED <<pallet, block_number, balance, ltStorage, ltTotal, ltMaxGenerateRandom,
                   ltRandomness, lnVars, gaVars>>

LtChooseNext == lt_choose_ticket

\* ========================================================================
\* did pallet: the registry the giveaway pallet reads
\* ========================================================================
DidProviders == {"Fractal"}
DidExternalIds == {<< >>, <<1>>}
DidManagers == {"a1"}
DidUsers == {"a2"}

DidInit ==
    /\ didPalletManager = [a \in Accounts |-> FALSE]
    /\ didExternalIdAddress = [k \in Accounts \X DidProviders |-> << >>]

\* add_did_manager(origin = manager origin, manager)
did_add_did_manager ==
    /\ pallet = "giveaway"
    /\ \E manager \in DidManagers :
         /\ didPalletManager' = [didPalletManager EXCEPT ![manager] = TRUE]
         /\ ret' = Call("add_did_manager", manager, 0, 0, 0, "Ok")
         /\ events' = <<[kind |-> "AddedManager", manager |-> manager]>>
    /\ UNCHANGED <<pallet, block_number, balance, lnVars, ltVars, gaStorage, gaPaid,
                   didExternalIdAddress>>

\* remove_did_manager(origin = manager origin, manager)
did_remove_did_manager ==
    /\ pallet = "giveaway"
    /\ \E manager \in DidManagers :
         /\ didPalletManager' = [didPalletManager EXCEPT ![manager] = FALSE]
         /\ ret' = Call("remove_did_manager", manager, 0, 0, 0, "Ok")
         /\ events' = <<[kind |-> "RemovedManager", manager |-> manager]>>
    /\ UNCHANGED <<pallet, block_number, balance, lnVars, ltVars, gaStorage, gaPaid,
                   didExternalIdAddress>>

\* add_user_address(origin = Signed(who), user, provider, external_id)
did_add_user_address ==
    /\ pallet = "giveaway"
    /\ \E who \in Accounts, user \in DidUsers, provider \in DidProviders,
          external_id \in DidExternalIds :
         IF didPalletManager[who]
         THEN /\ didExternalIdAddress' =
                   [didExternalIdAddress EXCEPT ![<<user, provider>>] = external_id]
              /\ ret' = Call("add_user_address", user, 0, 0, 0, "Ok")
              /\ events' = <<[kind |-> "AddedUserAddress", who |-> user, provider |-> provider]>>
         ELSE /\ UNCHANGED didExternalIdAddress
              /\ ret' = Failed("add_user_address", "InvalidOrigin")
              /\ events' = << >>
    /\ UNCHANGED <<pallet, block_number, balance, lnVars, ltVars, gaStorage, gaPaid,
                   didPalletManager>>

\* remove_user_address(origin = Signed(who), user, provider)
did_remove_user_address ==
    /\ pallet = "giveaway"
    /\ \E who \in Accounts, user \in DidUsers, provider \in DidProviders :
         IF didPalletManager[who]
         THEN /\ didExternalIdAddress' =
                   [didExternalIdAddress EXCEPT ![<<user, provider>>] = << >>]
              /\ ret' = Call("remove_user_address", user, 0, 0, 0, "Ok")
              /\ events' = <<[kind |-> "RemovedUserAddress", who |-> user, provider |-> provider]>>
         ELSE /\ UNCHANGED didExternalIdAddress
              /\ ret' = Failed("remove_user_address", "InvalidOrigin")
              /\ events' = << >>
    /\ UNCHANGED <<pallet, block_number, balance, lnVars, ltVars, gaStorage, gaPaid,
                   didPalletManager>>

DidNext == did_add_did_manager \/ did_remove_did_manager
              \/ did_add_user_address \/ did_remove_user_address

\* ========================================================================
\* giveaway pallet
\* ========================================================================
\* largest block number of the giveaway runs
GaBlockNumberMax == 4
\* giveaways the model creates
MaxGiveaways == 2
\* capacity of BlockToGiveaway, BoundedVec<u32, T::MaxSet>
GaMaxSet == 2
\* capacity of Results, BoundedVec<U256, ConstU32<32>>
ResultsCap == 32
\* the modulus of U256::low_u32 (2^32 in the program, reduced integer width here)
TwoPow32 == 2^16

GaIds == 0 .. MaxGiveaways - 1
GaBlocks == 0 .. GaBlockNumberMax
GaStarts == {2, 3}
GaEnds == {3}
\* heights the oracle delivers results for: one that never has a queue and the end height
GaResultBlocks == {2, 3}
GaKyc == {"Tier0", "Tier1"}
GaAmounts == {1}
GaMaxJoins == {2}
\* max_join of the giveaways of the selection runs: room for three participants
GaSelectJoins == {3}
GaSelectKyc == {"Tier0"}
GaSelectCreators == {"a1"}
GaPositions == 0 .. 2
\* values the oracle may deliver
ResultValues == {0, TwoPow32 + 1}
ResultBatches == {<< >>} \cup {<<x>> : x \in ResultValues}
                   \cup {<<x, y>> : x \in ResultValues, y \in ResultValues}

GiveawayConfig(start, end, kyc, creator, amount, max_join) ==
    [start |-> start, end |-> end, kyc |-> kyc, creator |-> creator,
     token |-> [amount |-> amount], max_join |-> max_join]

\* U256::low_u32
low_u32(x) == x % TwoPow32

\* BoundedVec::defensive_truncate_from
defensive_truncate_from(v, cap) == IF Len(v) > cap THEN SubSeq(v, 1, cap) ELSE v

\* Participants::get(giveaway, position)
GaParticipantsGet(parts, g, k) ==
    IF <<g, k>> \in DOMAIN parts THEN parts[<<g, k>>] ELSE NoAccount

GaInit ==
    /\ gaGiveawayIndex = 0
    /\ gaGiveaway = [g \in GaIds |-> None]
    /\ gaParticipants = [k \in GaIds \X GaPositions |-> NoAccount]
    /\ gaTotalParticipantByGiveaway = [g \in GaIds |-> 0]
    /\ gaGiveawayToUser = [k \in GaIds \X Accounts |-> FALSE]
    /\ gaBlockToGiveaway = [b \in GaBlocks |-> << >>]
    /\ gaBlockToResults = [b \in GaBlocks |-> None]
    /\ gaRoundWinner = [g \in GaIds |-> NoAccount]
    /\ gaPaid = [g \in GaIds |-> 0]

\* a block passes; the hook of the pallet is commented out
ga_next_block ==
    /\ pallet = "giveaway"
    /\ block_number < GaBlockNumberMax
    /\ block_number' = block_number + 1
    /\ ret' = Call("next_block", NoAccount, 0, 0, 0, "Ok")
    /\ events' = << >>
    /\ UNCHANGED <<pallet, balance, lnVars, ltVars, gaVars>>

\* the error create_give_away returns; the pot deposit is credited before the
\* creator's tokens are moved
ga_create_give_away_error(who, start_block, end_block, amount) ==
    IF ~(block_number < start_block) THEN "StartBlockInvalid"
    ELSE IF ~(end_block > start_block) THEN "EndBlockInvalid"
    ELSE IF Len(gaBlockToGiveaway[end_block]) >= GaMaxSet THEN "TooMany"
    ELSE TransferError(DepositCreating(balance, Pot, PotDeposit), who, Pot, amount)

\* create_give_away(origin = Signed(who), name, start_block, end_block, kyc,
\*                  random_type, asset_type, token = Some(amount), max_join)
ga_create_give_away_call(who, start_block, end_block, kyc, amount, max_join) ==
    /\ pallet = "giveaway"
    /\ gaGiveawayIndex < MaxGiveaways
    /\ LET err == ga_create_give_away_error(who, start_block, end_block, amount)
           index == gaGiveawayIndex
       IN  /\ UNCHANGED <<pallet, block_number, lnVars, ltVars, gaParticipants,
                          gaTotalParticipantByGiveaway, gaGiveawayToUser, gaBlockToResults,
                          gaRoundWinner, didVars, gaPaid>>
           /\ IF err = "Ok"
              THEN /\ gaGiveawayIndex' = index + 1
                   /\ gaGiveaway' = [gaGiveaway EXCEPT ![index] =
                        Some(GiveawayConfig(start_block, end_block, kyc, who, amount, max_join))]
                   /\ gaBlockToGiveaway' = [gaBlockToGiveaway EXCEPT ![end_block] = Append(@, index)]
                   /\ balance' = Transfer(DepositCreating(balance, Pot, PotDeposit), who, Pot, amount)
                   /\ ret' = Call("create_give_away", who, index, end_block, amount, "Ok")
                   /\ events' = <<[kind |-> "GiveawayCreated", index |-> index]>>
              ELSE /\ UNCHANGED <<gaGiveawayIndex, gaGiveaway, gaBlockToGiveaway, balance>>
                   /\ ret' = Failed("create_give_away", err)
                   /\ events' = << >>

ga_create_give_away ==
    \E who \in Accounts, start_block \in GaStarts, end_block \in GaEnds, kyc \in GaKyc,
       amount \in GaAmounts, max_join \in GaMaxJoins :
        ga_create_give_away_call(who, start_block, end_block, kyc, amount, max_join)

\* the error participate(who, index) returns; "Panic" is the unwrap of a missing giveaway
ga_participate_error_unbounded(who, index) ==
    IF ~IsSome(gaGiveaway[index]) THEN "Panic"
    ELSE IF ~(Unwrap(gaGiveaway[index]).end >= block_number) THEN "GiveawayEnded"
    ELSE IF ~(Unwrap(gaGiveaway[index]).start <= block_number) THEN "GiveawayNotStarted"
    ELSE IF /\ Unwrap(gaGiveaway[index]).kyc = "Tier1"
            /\ ~(Len(didExternalIdAddress[<<who, "Fractal">>]) > 0)
         THEN "UserIsNotVerified"
    ELSE IF gaGiveawayToUser[<<index, who>>] THEN "AlreadyJoined"
    ELSE "Ok"
ga_participate_error_unverified(who, index) ==
    IF ~IsSome(gaGiveaway[index]) THEN "Panic"
    ELSE IF ~(Unwrap(gaGiveaway[index]).end >= block_number) THEN "GiveawayEnded"
    ELSE IF ~(Unwrap(gaGiveaway[index]).start <= block_number) THEN "GiveawayNotStarted"
    ELSE IF gaGiveawayToUser[<<index, who>>] THEN "AlreadyJoined"
    ELSE IF ~(gaTotalParticipantByGiveaway[index] < Unwrap(gaGiveaway[index]).max_join)
         THEN "TooManyParticipants"
    ELSE "Ok"
ga_participate_error(who, index) ==
    IF ~IsSome(gaGiveaway[index]) THEN "Panic"
    ELSE IF ~(Unwrap(gaGiveaway[index]).end >= block_number) THEN "GiveawayEnded"
    ELSE IF ~(Unwrap(gaGiveaway[index]).start <= block_number) THEN "GiveawayNotStarted"
    ELSE IF /\ Unwrap(gaGiveaway[index]).kyc = "Tier1"
            /\ ~(Len(didExternalIdAddress[<<who, "Fractal">>]) > 0)
         THEN "UserIsNotVerified"
    ELSE IF gaGiveawayToUser[<<index, who>>] THEN "AlreadyJoined"
    ELSE IF ~(gaTotalParticipantByGiveaway[index] < Unwrap(gaGiveaway[index]).max_join)
         THEN "TooManyParticipants"
    ELSE "Ok"

\* participate(origin = Signed(who), index)
ga_participate_call(who, index) ==
    /\ pallet = "giveaway"
    /\ LET err == ga_participate_error(who, index)
           total == gaTotalParticipantByGiveaway[index]
       IN  /\ UNCHANGED <<pallet, block_number, balance, lnVars, ltVars, gaGiveawayIndex,
                          gaGiveaway, gaGiveawayToUser, gaBlockToGiveaway, gaBlockToResults,
                          gaRoundWinner, didVars, gaPaid>>
           /\ IF err = "Ok"
              THEN /\ gaParticipants' = [gaParticipants EXCEPT ![<<index, total>>] = who]
                   /\ gaTotalParticipantByGiveaway' =
                        [gaTotalParticipantByGiveaway EXCEPT ![index] = total + 1]
                   /\ ret' = Call("participate", who, index, 0, 0, "Ok")
                   /\ events' = <<[kind |-> "Participated", index |-> index, who |-> who]>>
              ELSE /\ UNCHANGED <<gaParticipants, gaTotalParticipantByGiveaway>>
                   /\ ret' = Failed("participate", err)
                   /\ events' = << >>

ga_participate ==
    \E who \in Accounts, index \in GaIds : ga_participate_call(who, index)

\* the winner set_block_result picks for giveaway g and random value r;
\* NoAccount when the participant entry is missing (the unwrap panics)
ga_pick_winner_unshifted(g, r) ==
    LET participants_len == gaTotalParticipantByGiveaway[g]
        index0 == low_u32(r) % participants_len
        index == IF index0 = 0 THEN participants_len ELSE index0
    IN  GaParticipantsGet(gaParticipants, g, index)
ga_pick_winner_direct(g, r) ==
    GaParticipantsGet(gaParticipants, g, low_u32(r) % gaTotalParticipantByGiveaway[g])
ga_pick_winner(g, r) ==
    LET participants_len == gaTotalParticipantByGiveaway[g]
        index0 == low_u32(r) % participants_len
        index == IF index0 = 0 THEN participants_len ELSE index0
    IN  GaParticipantsGet(gaParticipants, g, IF index = 0 THEN 0 ELSE index - 1)

\* the loop of set_block_result over giveaways.iter().zip(results.iter()),
\* from position i on; acc collects the winners, the events and a panic
RECURSIVE ga_resolve(_, _, _, _)
ga_resolve(giveaways, results, i, acc) ==
    IF i > Min(Len(giveaways), Len(results)) \/ acc.panic THEN acc
    ELSE LET g == giveaways[i]
             participants_len == gaTotalParticipantByGiveaway[g]
         IN  IF participants_len # 0
             THEN LET winner == ga_pick_winner(g, results[i])
                  IN  IF winner = NoAccount
                      THEN [acc EXCEPT !.panic = TRUE]
                      ELSE ga_resolve(giveaways, results, i + 1,
                             [acc EXCEPT !.winner[g] = winner,
                                         !.events = Append(@, [kind |-> "Winner", index |-> g,
                                                               who |-> winner, status |-> TRUE])])
             ELSE IF ~IsSome(gaGiveaway[g])
                  THEN [acc EXCEPT !.panic = TRUE]
                  ELSE ga_resolve(giveaways, results, i + 1,
                         [acc EXCEPT !.winner[g] = Unwrap(gaGiveaway[g]).creator,
                                     !.events = Append(@, [kind |-> "Winner", index |-> g,
                                                           who |-> Unwrap(gaGiveaway[g]).creator,
                                                           status |-> FALSE])])

\* the error set_block_result(block, request_id, result) returns before the loop
ga_set_block_result_error_rewritable(block, result) ==
    IF ~(block < block_number) THEN "EndBlockInvalid"
    ELSE IF ~(Len(gaBlockToGiveaway[block]) = Len(result)) THEN "InvalidResult"
    ELSE "Ok"
ga_set_block_result_error_early(block, result) ==
    IF IsSome(gaBlockToResults[block]) THEN "CannotSetResultAgain"
    ELSE IF ~(Len(gaBlockToGiveaway[block]) = Len(result)) THEN "InvalidResult"
    ELSE "Ok"
ga_set_block_result_error_unchecked(block, result) ==
    IF IsSome(gaBlockToResults[block]) THEN "CannotSetResultAgain"
    ELSE IF ~(block < block_number) THEN "EndBlockInvalid"
    ELSE "Ok"
ga_set_block_result_error(block, result) ==
    IF IsSome(gaBlockToResults[block]) THEN "CannotSetResultAgain"
    ELSE IF ~(block < block_number) THEN "EndBlockInvalid"
    ELSE IF ~(Len(gaBlockToGiveaway[block]) = Len(result)) THEN "InvalidResult"
    ELSE "Ok"

\* set_block_result(origin = giveaway origin, block, request_id, result)
ga_set_block_result_call(block, result) ==
    /\ pallet = "giveaway"
    /\ LET err == ga_set_block_result_error(block, result)
           giveaways == gaBlockToGiveaway[block]
           results_bounded == defensive_truncate_from(result, ResultsCap)
           out == ga_resolve(giveaways, results_bounded, 1,
                             [winner |-> gaRoundWinner, events |-> << >>, panic |-> FALSE])
       IN  /\ UNCHANGED <<pallet, block_number, balance, lnVars, ltVars, gaGiveawayIndex,
                          gaGiveaway, gaParticipants, gaTotalParticipantByGiveaway,
                          gaGiveawayToUser, didVars, gaPaid>>
           /\ IF err = "Ok" /\ ~out.panic
              THEN /\ gaBlockToResults' = [gaBlockToResults EXCEPT ![block] = Some(results_bounded)]
                   /\ gaRoundWinner' = out.winner
                   /\ gaBlockToGiveaway' = [gaBlockToGiveaway EXCEPT ![block] = << >>]
                   /\ ret' = Call("set_block_result", NoAccount, 0, block, 0, "Ok")
                   /\ events' = Append(out.events, [kind |-> "Results", block |-> block,
                                                    results |-> results_bounded])
              ELSE /\ UNCHANGED <<gaBlockToResults, gaRoundWinner, gaBlockToGiveaway>>
                   /\ ret' = Failed("set_block_result", IF err = "Ok" THEN "Panic" ELSE err)
                   /\ events' = << >>

ga_set_block_result ==
    \E block \in GaResultBlocks, result \in ResultBatches : ga_set_block_result_call(block, result)

\* the error claim_reward(round) returns
ga_claim_reward_error_unresolved(round) ==
    IF ~IsSome(gaGiveaway[round]) THEN "InvalidRound"
    ELSE IF gaRoundWinner[round] = NoAccount THEN "Ok"
    ELSE TransferError(balance, Pot, gaRoundWinner[round], Unwrap(gaGiveaway[round]).token.amount)
ga_claim_reward_error(round) ==
    IF ~(IsSome(gaGiveaway[round]) /\ gaRoundWinner[round] # NoAccount) THEN "InvalidRound"
    ELSE TransferError(balance, Pot, gaRoundWinner[round], Unwrap(gaGiveaway[round]).token.amount)

\* claim_reward(origin = Signed(caller), round)
ga_claim_reward_call(caller, round) ==
    /\ pallet = "giveaway"
    /\ LET err == ga_claim_reward_error(round)
       IN  /\ UNCHANGED <<pallet, block_number, lnVars, ltVars, gaStorage, didVars>>
           /\ IF err = "Ok"
              THEN LET amount == Unwrap(gaGiveaway[round]).token.amount
                       round_winner == gaRoundWinner[round]
                   IN  /\ balance' = Transfer(balance, Pot, round_winner, amount)
                       /\ gaPaid' = [gaPaid EXCEPT ![round] = @ + amount]
                       /\ ret' = Call("claim_reward", caller, round, 0, amount, "Ok")
                       /\ events' = <<[kind |-> "RewardClaimed", index |-> round,
                                       winner |-> round_winner]>>
              ELSE /\ UNCHANGED <<balance, gaPaid>>
                   /\ ret' = Failed("claim_reward", err)
                   /\ events' = << >>

ga_claim_reward ==
    \E caller \in Accounts, round \in GaIds : ga_claim_reward_call(caller, round)

\* create_give_away of the selection runs: giveaways open to everybody, three places
ga_create_give_away_open ==
    \E who \in GaSelectCreators, start_block \in GaStarts, end_block \in GaEnds, kyc \in GaSelectKyc,
       amount \in GaAmounts, max_join \in GaSelectJoins :
        ga_create_give_away_call(who, start_block, end_block, kyc, amount, max_join)

\* create_give_away of one creator, with either KYC tier
ga_create_give_away_kyc ==
    \E who \in GaSelectCreators, start_block \in GaStarts, end_block \in GaEnds, kyc \in GaKyc,
       amount \in GaAmounts, max_join \in GaMaxJoins :
        ga_create_give_away_call(who, start_block, end_block, kyc, amount, max_join)

\* the calls that create and join giveaways, beside the registry
GaDidNext == ga_next_block \/ ga_create_give_away_kyc \/ ga_participate

GaSelectNext == ga_next_block \/ ga_create_give_away_open \/ ga_participate
                    \/ ga_set_block_result \/ ga_claim_reward

GaNext == ga_next_block \/ ga_create_give_away \/ ga_participate
              \/ ga_set_block_result \/ ga_claim_reward

\* a runtime whose T::MaxSet lets one block queue more giveaways than Results holds
GaQueueMaxSet == 33
GaQueueIds == 0 .. GaQueueMaxSet - 1
GaQueueEnd == 3
\* the balances before any giveaway is created: a1 can fund a full queue
GaQueueInitialBalance ==
    [a \in Holders |-> IF a = Pot THEN 0 ELSE IF a = "a1" THEN GaQueueMaxSet + 2 ELSE 2]

\* the storage after n calls create_give_away(start 2, end GaQueueEnd, Tier0,
\* amount 1, max_join 2) of a1 at height 1
GaQueueInit(n) ==
    /\ gaGiveawayIndex = n
    /\ gaGiveaway = [g \in GaQueueIds |->
                       IF g < n THEN Some(GiveawayConfig(2, GaQueueEnd, "Tier0", "a1", 1, 2))
                       ELSE None]
    /\ gaParticipants = [k \in GaIds \X GaPositions |-> NoAccount]
    /\ gaTotalParticipantByGiveaway = [g \in GaQueueIds |-> 0]
    /\ gaGiveawayToUser = [k \in GaIds \X Accounts |-> FALSE]
    /\ gaBlockToGiveaway = [b \in GaBlocks |->
                              IF b = GaQueueEnd THEN [i \in 1 .. n |-> i - 1] ELSE << >>]
    /\ gaBlockToResults = [b \in GaBlocks |-> None]
    /\ gaRoundWinner = [g \in GaQueueIds |-> NoAccount]
    /\ gaPaid = [g \in GaQueueIds |-> 0]
    /\ balance = [GaQueueInitialBalance EXCEPT !["a1"] = @ - n,
                                                ![Pot] = @ + n * (PotDeposit + 1)]

\* set_block_result with one value for every queued giveaway, or a short batch
ga_set_block_result_queue ==
    \E block \in GaResultBlocks :
        \E result \in ResultBatches
                        \cup {[i \in 1 .. Len(gaBlockToGiveaway[block]) |-> x] :
                                 x \in ResultValues} :
            ga_set_block_result_call(block, result)

GaQueueNext == ga_next_block \/ ga_participate \/ ga_set_block_result_queue

\* ========================================================================
\* Specifications
\* ========================================================================
SharedInit(p, bal) ==
    /\ pallet = p
    /\ block_number = 1
    /\ balance = bal
    /\ ret = NoCall
    /\ events = << >>

StorageInit == LnInit /\ LtInit /\ GaInit /\ DidInit

InitLn == SharedInit("lucky-number", InitialBalance) /\ StorageInit
SpecLn == InitLn /\ [][LnNext]_vars

\* block heights keep advancing and the hook runs at every height
FairSpecLn == SpecLn /\ WF_vars(ln_on_initialize)

InitLt == SharedInit("lottery", LtInitialBalance) /\ StorageInit
SpecLt == InitLt /\ [][LtNext]_vars

\* choose_ticket applied to every total, budget and assignment of hashes to seeds
InitLtChoose ==
    /\ SharedInit("lottery", LtInitialBalance)
    /\ LnInit /\ GaInit /\ DidInit /\ LtStorageInit
    /\ \E total \in LtTotals, budget \in LtBudgets, randomness \in [LtSeeds -> LtHashes] :
          LtDrawInit(total, budget, randomness)
SpecLtChoose == InitLtChoose /\ [][LtChooseNext]_vars

InitTickets ==
    /\ \/ SharedInit("lucky-number", InitialBalance)
       \/ SharedInit("lottery", LtInitialBalance)
    /\ StorageInit
SpecTickets == InitTickets /\ [][LnNext \/ LtNext]_vars

InitGa == SharedInit("giveaway", InitialBalance) /\ StorageInit
SpecGa == InitGa /\ [][GaNext]_vars
\* the two pallets that pay rewards out of a pot
InitRewards ==
    /\ \/ SharedInit("lucky-number", InitialBalance)
       \/ SharedInit("giveaway", InitialBalance)
    /\ StorageInit
SpecRewards == InitRewards /\ [][LnNext \/ GaNext]_vars
SpecGaSelect == InitGa /\ [][GaSelectNext]_vars
SpecGaDid == InitGa /\ [][GaDidNext \/ DidNext]_vars
\* the giveaway pallet with a queue of every length T::MaxSet allows
InitGaQueue ==
    /\ pallet = "giveaway"
    /\ block_number = 1
    /\ ret = NoCall
    /\ events = << >>
    /\ LnInit /\ LtInit /\ DidInit
    /\ \E n \in 0 .. GaQueueMaxSet : GaQueueInit(n)
SpecGaQueue == InitGaQueue /\ [][GaQueueNext]_vars

\* ========================================================================
\* Properties
\* ========================================================================
LnErrorsOfTransfer == {"InsufficientBalance", "ExistentialDeposit", "KeepAlive"}

\* C1: giveaway: once claim_reward(round) has succeeded no later
\* claim_reward(round) moves funds out of the pot, so the total paid out for
\* a round never exceeds that round's token.amount.
C1_PaidAtMostTokenAmount ==
    \A g \in GaIds :
        IsSome(gaGiveaway[g]) => gaPaid[g] <= Unwrap(gaGiveaway[g]).token.amount

\* C2: lucky-number: a claim_reward whose transfer succeeded removes who from
\* Winners[round]; from then on who stays out of Winners[round], and every
\* claim_reward for an account that is not in Winners[round] fails with
\* InvalidCall and moves no funds, whatever number is passed.
C2_PaidWinnerCannotClaimAgain ==
    [][ /\ \A who \in Accounts, round \in RoundIds :
              lnClaimLog'[<<who, round>>] \in {"paid", "paid_after_failure"}
                  => who \notin lnWinners'[round]
        /\ \A who \in Accounts, round \in RoundIds, number \in LnNumbers :
              ( /\ ret'.op = "claim_reward"
                /\ who \notin lnWinners[round]
                /\ ln_claim_reward_call(who, round, number) )
                  => /\ ret'.err = "InvalidCall"
                     /\ balance' = balance
                     /\ lnStorage' = lnStorage ]_vars

\* a claim for an already paid (who, round) has just failed with InvalidCall
C2_Witness ==
    /\ ret.op = "claim_reward"
    /\ ret.err = "InvalidCall"
    /\ lnClaimLog[<<ret.who, ret.round>>] = "paid"
    /\ balance[ret.who] > InitialBalance[ret.who]

\* C3: lucky-number: when the pot-to-winner transfer of claim_reward fails,
\* the storage and all balances stay as they were and RewardClaimedFailed
\* carries the transfer error; funds leave the pot only in a claim_reward
\* step (nothing is retried by the hook or another call); and a claim_reward
\* for a winner whose reward the pot can pay pays exactly the reward and
\* removes the winner.
C3_FailedPayoutKeepsWinner ==
    [][ /\ \A who \in Accounts, round \in RoundIds, number \in LnNumbers :
              ( /\ ret'.op = "claim_reward"
                /\ who \in lnWinners[round]
                /\ ln_claim_reward_call(who, round, number)
                /\ TransferError(balance, Pot, who, ln_reward(who, round, number)) # "Ok" )
              => /\ lnStorage' = lnStorage
                 /\ balance' = balance
                 /\ ret'.err = "Ok"
                 /\ events' = <<[kind |-> "RewardClaimedFailed", round |-> round, who |-> who,
                                 amount |-> ln_reward(who, round, number),
                                 error |-> TransferError(balance, Pot, who,
                                                         ln_reward(who, round, number))]>>
                 /\ events'[1].error \in LnErrorsOfTransfer
        /\ balance'[Pot] < balance[Pot] => ret'.op = "claim_reward"
        /\ \A who \in Accounts, round \in RoundIds, number \in LnNumbers :
              ( /\ ret'.op = "claim_reward"
                /\ who \in lnWinners[round]
                /\ ln_claim_reward_call(who, round, number)
                /\ TransferError(balance, Pot, who, ln_reward(who, round, number)) = "Ok" )
              => /\ balance'[Pot] = balance[Pot] - ln_reward(who, round, number)
                 /\ balance'[who] = balance[who] + ln_reward(who, round, number)
                 /\ who \notin lnWinners'[round]
                 /\ events'[1].kind = "RewardClaimed" ]_vars

\* a winner whose payout failed earlier has just been paid
C3_Witness ==
    /\ ret.op = "claim_reward"
    /\ ret.err = "Ok"
    /\ ret.amount > 0
    /\ lnClaimLog[<<ret.who, ret.round>>] = "paid_after_failure"
    /\ ret.who \notin lnWinners[ret.round]

\* C4: lottery: while a round of a kind is present, start_lottery for that
\* kind fails with InProgress and changes neither LotteryIndex, Lottery nor
\* the pot balance.
C4_SecondStartFails ==
    [][ \A kind \in LtKinds :
          ( /\ ret'.op = "start_lottery"
            /\ \E i \in LtIndices : IsSome(ltLottery[<<kind, i>>])
            /\ \E price \in LtPrices, length \in LtLengths, delay \in LtDelays,
                  repeat \in BOOLEAN :
                  lt_start_lottery_call(kind, price, length, delay, repeat) )
          => /\ ret'.err = "InProgress"
             /\ UNCHANGED <<ltLotteryIndex, ltLottery, balance>> ]_vars

\* C5: lucky-number: no Lottery config exists for an index above Round, and
\* start_lottery fails with InProgress and changes nothing whenever
\* Lottery[Round] exists, also when it is the successor of a repeating round.
C5_OneOpenRound ==
    [][ /\ \A r \in RoundIds : r > lnRound' => ~IsSome(lnLottery'[r])
        /\ \A min_price \in LnMinPrices, length \in LnLengths, delay \in LnDelays,
              rate \in LnRates, repeat \in BOOLEAN :
              ( /\ ret'.op = "start_lottery"
                /\ IsSome(lnLottery[lnRound])
                /\ ln_start_lottery_call(min_price, length, delay, rate, repeat) )
              => /\ ret'.err = "InProgress"
                 /\ lnStorage' = lnStorage
                 /\ balance' = balance ]_vars

\* start_lottery has just failed on the successor a repeating round created
C5_Witness ==
    /\ ret.op = "start_lottery"
    /\ ret.err = "InProgress"
    /\ lnRound >= 1
    /\ IsSome(lnLottery[lnRound])
    /\ Unwrap(lnLottery[lnRound - 1]).repeat
    /\ Unwrap(lnLottery[lnRound]).start > Unwrap(lnLottery[lnRound - 1]).start

\* the purchase reaches the capacity check: the round exists and is open
LnOpen == /\ IsSome(lnLottery[lnRound])
          /\ block_number <= SatAdd(Unwrap(lnLottery[lnRound]).start,
                                    Unwrap(lnLottery[lnRound]).length)
LtOpen(kind, index) ==
    /\ IsSome(ltLottery[<<kind, index>>])
    /\ block_number < SatAdd(Unwrap(ltLottery[<<kind, index>>]).start,
                             Unwrap(ltLottery[<<kind, index>>]).length)

\* C6: lottery and lucky-number: no (round, selection) key ever holds more
\* accounts than the capacity; a purchase by an account that is not yet
\* registered under a key at capacity fails (with TooManyParticipants once it
\* reaches the capacity check) and leaves participants, stakes and all
\* balances unchanged.
C6_CapacityNeverExceeded ==
    [][ /\ \A k \in DOMAIN lnParticipants' : Cardinality(lnParticipants'[k]) <= MaxSet
        /\ \A k \in DOMAIN ltParticipants' : Len(ltParticipants'[k]) <= MaxParticipants
        /\ \A caller \in Accounts, number \in LnNumbers, amount \in LnAmounts :
              ( /\ ret'.op = "buy_ticket"
                /\ caller \notin lnParticipants[<<lnRound, number>>]
                /\ Cardinality(lnParticipants[<<lnRound, number>>]) >= MaxSet
                /\ ln_buy_ticket_call(caller, number, amount) )
              => /\ ret'.err # "Ok"
                 /\ LnOpen => ret'.err = "TooManyParticipants"
                 /\ UNCHANGED <<lnParticipants, lnUserPredictionValue, balance>>
        /\ \A caller \in Accounts, kind \in LtKinds, index \in LtIndices,
              selection \in LtSelections :
              ( /\ ret'.op = "buy_ticket"
                /\ Len(ltParticipants[<<kind, index, selection>>]) >= MaxParticipants
                /\ lt_buy_ticket_call(caller, kind, index, selection) )
              => /\ ret'.detail # "Ok"
                 /\ LtOpen(kind, index) => ret'.detail = "TooManyParticipants"
                 /\ UNCHANGED <<ltParticipants, balance>> ]_vars

\* a purchase has just been refused at a full key
C6_Witness ==
    /\ pallet = "lucky-number"
    /\ ret.op = "buy_ticket"
    /\ ret.err = "TooManyParticipants"
    /\ \E number \in LnNumbers : Cardinality(lnParticipants[<<lnRound, number>>]) = MaxSet

\* C7: giveaway: an account appears at most once among the participants of a
\* giveaway (a second participate by the same account fails with AlreadyJoined).
C7_ParticipantsDistinct ==
    \A g \in GaIds : \A i, j \in GaPositions :
        ( /\ i < j
          /\ j < gaTotalParticipantByGiveaway[g] )
        => gaParticipants[<<g, i>>] # gaParticipants[<<g, j>>]

\* C8: lottery: an account occurs at most once in
\* Participants[(kind, index, selection)] (one ticket per selection per lottery).
C8_OneTicketPerSelection ==
    \A k \in DOMAIN ltParticipants : \A i, j \in 1 .. Len(ltParticipants[k]) :
        i < j => ltParticipants[k][i] # ltParticipants[k][j]

\* what the hook resolves: the round, if the step is a block start that
\* records winners or advances Round
LnHookResolved == ret'.op = "on_initialize" /\ lnStorage' # lnStorage

\* C9 as stated: the hook records Winners[round] and advances Round only at
\* a height n >= start + length + delay, the exact sum.
C9_ResolvesOnlyAtExactPayoutHeight ==
    [][ LnHookResolved =>
          /\ IsSome(lnLottery[lnRound])
          /\ block_number' >= Unwrap(lnLottery[lnRound]).start
                               + Unwrap(lnLottery[lnRound]).length
                               + Unwrap(lnLottery[lnRound]).delay ]_vars

\* C9 amended: the hook records Winners[round] and advances Round only at a
\* height n >= start + length + delay where the sum saturates at the largest
\* block number; at every lower height the hook changes no storage, and at
\* such a height it does resolve the round.
C9_ResolvesOnlyAtSaturatedPayoutHeight ==
    [][ ret'.op = "on_initialize" =>
          LET n == block_number'
              due == /\ IsSome(lnLottery[lnRound])
                     /\ n >= Min(Unwrap(lnLottery[lnRound]).start
                                   + Unwrap(lnLottery[lnRound]).length
                                   + Unwrap(lnLottery[lnRound]).delay, BlockNumberMax)
          IN  /\ ~due => lnStorage' = lnStorage
              /\ due => lnRound' = lnRound + 1 ]_vars

\* the hook has just resolved a round whose delay is not zero, exactly at its payout height
C9_Witness ==
    /\ ret.op = "on_initialize"
    /\ ret.err = "Ok"
    /\ lnRound = ret.round + 1
    /\ Unwrap(lnLottery[ret.round]).delay > 0
    /\ block_number = Unwrap(lnLottery[ret.round]).start + Unwrap(lnLottery[ret.round]).length
                        + Unwrap(lnLottery[ret.round]).delay

\* C10: giveaway: set_block_result(h, id, values) with a number of values
\* other than the number of giveaways queued at h fails (with InvalidResult
\* once the write-once and height checks have passed) and writes nothing:
\* RoundWinner, BlockToResults and BlockToGiveaway are unchanged.
C10_MismatchedBatchRejected ==
    [][ ret'.op = "set_block_result" =>
        \A block \in GaResultBlocks, result \in ResultBatches :
          ( /\ Len(result) # Len(gaBlockToGiveaway[block])
            /\ ga_set_block_result_call(block, result) )
          => /\ ret'.err # "Ok"
             /\ (~IsSome(gaBlockToResults[block]) /\ block < block_number)
                   => ret'.err = "InvalidResult"
             /\ gaStorage' = gaStorage ]_vars

\* a batch of the wrong length has just been rejected for a height with queued giveaways
C10_Witness ==
    /\ ret.op = "set_block_result"
    /\ ret.err = "InvalidResult"
    /\ \E b \in GaResultBlocks : b < block_number /\ Len(gaBlockToGiveaway[b]) = 2

\* C11: giveaway: oracle results are write-once per height: a stored
\* BlockToResults[h] never changes, and every set_block_result for a height
\* that has a result fails with CannotSetResultAgain and changes neither
\* BlockToResults nor any RoundWinner record.
C11_ResultsWriteOnce ==
    [][ /\ \A b \in GaBlocks :
              IsSome(gaBlockToResults[b]) => gaBlockToResults'[b] = gaBlockToResults[b]
        /\ ret'.op = "set_block_result" =>
              \A block \in GaResultBlocks, result \in ResultBatches :
                  ( /\ IsSome(gaBlockToResults[block])
                    /\ ga_set_block_result_call(block, result) )
                  => /\ ret'.err = "CannotSetResultAgain"
                     /\ gaBlockToResults' = gaBlockToResults
                     /\ gaRoundWinner' = gaRoundWinner ]_vars

\* a second delivery for a height whose result resolved a giveaway has just been refused
C11_Witness ==
    /\ ret.op = "set_block_result"
    /\ ret.err = "CannotSetResultAgain"
    /\ \E b \in GaResultBlocks : IsSome(gaBlockToResults[b]) /\ Len(Unwrap(gaBlockToResults[b])) > 0
    /\ \E g \in GaIds : gaRoundWinner[g] # NoAccount

\* C12 as stated: for a queued giveaway with n > 0 participants and
\* delivered value r, set_block_result records as winner the participant at
\* position index - 1, where index = r mod n remapped to n when it is 0,
\* for every value r.
C12_WinnerByFullValue ==
    [][ (ret'.op = "set_block_result" /\ ret'.err = "Ok") =>
          \A block \in GaResultBlocks, result \in ResultBatches :
              ga_set_block_result_call(block, result) =>
                  \A i \in 1 .. Len(result) :
                      LET g == gaBlockToGiveaway[block][i]
                          n == gaTotalParticipantByGiveaway[g]
                          index == IF result[i] % n = 0 THEN n ELSE result[i] % n
                      IN  n > 0 => gaRoundWinner'[g] = gaParticipants[<<g, index - 1>>] ]_vars

\* C12 amended: the index is computed from the low 32 bits of r:
\* index = (r mod 2^32) mod n, remapped to n when it is 0, and the winner is
\* the participant at position index - 1.
C12_WinnerByLowBits ==
    [][ (ret'.op = "set_block_result" /\ ret'.err = "Ok") =>
          \A block \in GaResultBlocks, result \in ResultBatches :
              ga_set_block_result_call(block, result) =>
                  \A i \in 1 .. Len(result) :
                      LET g == gaBlockToGiveaway[block][i]
                          n == gaTotalParticipantByGiveaway[g]
                          low == result[i] % TwoPow32
                          index == IF low % n = 0 THEN n ELSE low % n
                      IN  n > 0 => gaRoundWinner'[g] = gaParticipants[<<g, index - 1>>] ]_vars

\* a giveaway with three participants has just been resolved by a value
\* above 2^32 whose low bits pick the first participant
C12_Witness ==
    /\ ret.op = "set_block_result"
    /\ ret.err = "Ok"
    /\ IsSome(gaBlockToResults[ret.number])
    /\ Len(Unwrap(gaBlockToResults[ret.number])) = 1
    /\ Unwrap(gaBlockToResults[ret.number])[1] > TwoPow32
    /\ \E g \in GaIds :
          /\ gaTotalParticipantByGiveaway[g] = 3
          /\ Unwrap(gaGiveaway[g]).end = ret.number
          /\ gaParticipants[<<g, 0>>] # gaParticipants[<<g, 1>>]
          /\ gaRoundWinner[g] = gaParticipants[<<g, 0>>]

\* C13: giveaway: a giveaway without participants is resolved with its
\* creator as RoundWinner and a Winner event with status = false (status =
\* true only for a real participant), and a later claim_reward for that
\* round, not yet paid, succeeds and pays the creator.
C13_CreatorFallbackClaimSucceeds ==
    [][ /\ (ret'.op = "set_block_result" /\ ret'.err = "Ok") =>
              \A block \in GaResultBlocks, result \in ResultBatches :
                  ga_set_block_result_call(block, result) =>
                      \A i \in 1 .. Len(result) :
                          LET g == gaBlockToGiveaway[block][i]
                              n == gaTotalParticipantByGiveaway[g]
                          IN  /\ events'[i].kind = "Winner" /\ events'[i].index = g
                              /\ events'[i].who = gaRoundWinner'[g]
                              /\ events'[i].status = (n > 0)
                              /\ n = 0 => gaRoundWinner'[g] = Unwrap(gaGiveaway[g]).creator
        /\ ret'.op = "claim_reward" =>
              \A caller \in Accounts, round \in GaIds :
                  ( /\ IsSome(gaGiveaway[round])
                    /\ gaTotalParticipantByGiveaway[round] = 0
                    /\ gaRoundWinner[round] = Unwrap(gaGiveaway[round]).creator
                    /\ gaPaid[round] = 0
                    /\ ga_claim_reward_call(caller, round) )
                  => /\ ret'.err = "Ok"
                     /\ balance'[gaRoundWinner[round]] =
                          balance[gaRoundWinner[round]] + Unwrap(gaGiveaway[round]).token.amount ]_vars

\* C14: giveaway: claim_reward(round) fails with InvalidRound and moves no
\* funds whenever the giveaway config or the winner record of the round is
\* missing; a round is paid only after set_block_result has stored the
\* result of its end height.
C14_UnresolvedRoundNotClaimable ==
    [][ /\ ret'.op = "claim_reward" =>
              \A caller \in Accounts, round \in GaIds :
                  ( /\ ~IsSome(gaGiveaway[round]) \/ gaRoundWinner[round] = NoAccount
                    /\ ga_claim_reward_call(caller, round) )
                  => /\ ret'.err = "InvalidRound"
                     /\ balance' = balance
                     /\ gaPaid' = gaPaid
        /\ \A g \in GaIds :
              gaPaid'[g] > 0 => /\ IsSome(gaGiveaway'[g])
                                /\ IsSome(gaBlockToResults'[Unwrap(gaGiveaway'[g]).end]) ]_vars

\* a claim has just been refused while every giveaway is configured and none is resolved
C14_Witness ==
    /\ ret.op = "claim_reward"
    /\ ret.err = "InvalidRound"
    /\ \A g \in GaIds : IsSome(gaGiveaway[g]) /\ gaRoundWinner[g] = NoAccount
    /\ block_number > Unwrap(gaGiveaway[0]).end

\* C15: giveaway: claim_reward(round) by a signed account that is not the
\* recorded winner of the round fails and transfers nothing.
C15_OnlyWinnerMayClaim ==
    [][ ret'.op = "claim_reward" =>
          \A caller \in Accounts, round \in GaIds :
              ( /\ caller # gaRoundWinner[round]
                /\ ga_claim_reward_call(caller, round) )
              => /\ ret'.err # "Ok"
                 /\ balance' = balance ]_vars

\* C16: funds leave a pot only in a claim_reward step and only toward an
\* account recorded as winner of the claimed round: a lucky-number
\* claim_reward for who outside Winners[round] fails with InvalidCall and
\* changes nothing, a paying one credits who in Winners[round] alone, and a
\* giveaway claim_reward credits RoundWinner[round] alone.
C16_PotPaysRecordedWinnersOnly ==
    [][ /\ balance'[Pot] < balance[Pot] =>
              /\ ret'.op = "claim_reward"
              /\ LET winner == IF pallet = "giveaway" THEN gaRoundWinner[ret'.round]
                                ELSE ret'.who
                 IN  /\ pallet = "lucky-number" => winner \in lnWinners[ret'.round]
                     /\ winner \in Accounts
                     /\ balance'[winner] - balance[winner] = balance[Pot] - balance'[Pot]
                     /\ \A a \in Accounts \ {winner} : balance'[a] = balance[a]
        /\ (pallet = "lucky-number" /\ ret'.op = "claim_reward") =>
              \A who \in Accounts, round \in RoundIds, number \in LnNumbers :
                  ( /\ who \notin lnWinners[round]
                    /\ ln_claim_reward_call(who, round, number) )
                  => /\ ret'.err = "InvalidCall"
                     /\ UNCHANGED <<balance, lnStorage>> ]_vars

\* a giveaway claim sent by an account that is not the winner has just paid the winner
C16_Witness ==
    /\ pallet = "giveaway"
    /\ ret.op = "claim_reward"
    /\ ret.err = "Ok"
    /\ ret.who # gaRoundWinner[ret.round]
    /\ balance[gaRoundWinner[ret.round]] > InitialBalance[gaRoundWinner[ret.round]]

\* C17: lucky-number: when the caller-to-pot transfer of buy_ticket fails,
\* Participants, UserPredictionValue and all balances are as before the
\* call: no participant or stake entry is left behind.
C17_FailedTransferLeavesNoEntry ==
    [][ (pallet = "lucky-number" /\ ret'.op = "buy_ticket") =>
          \A caller \in Accounts, number \in LnNumbers, amount \in LnAmounts :
              ( /\ LnOpen
                /\ \/ caller \in lnParticipants[<<lnRound, number>>]
                   \/ Cardinality(lnParticipants[<<lnRound, number>>]) < MaxSet
                /\ TransferError(balance, caller, Pot, amount) # "Ok"
                /\ ln_buy_ticket_call(caller, number, amount) )
              => /\ ret'.err = TransferError(balance, caller, Pot, amount)
                 /\ lnParticipants' = lnParticipants
                 /\ lnUserPredictionValue' = lnUserPredictionValue
                 /\ balance' = balance ]_vars

\* a purchase has just failed in the transfer while a number of the round had room
C17_Witness ==
    /\ pallet = "lucky-number"
    /\ ret.op = "buy_ticket"
    /\ ret.err \in LnErrorsOfTransfer
    /\ LnOpen
    /\ \E number \in LnNumbers : lnParticipants[<<lnRound, number>>] = {}

\* the state a resolving hook leaves for the random value rnd, as a function
\* of the state before it
LnWinnersAfterDraw(rnd) ==
    [r \in RoundIds |-> IF r = lnRound THEN lnParticipants[<<lnRound, rnd % 100>>]
                         ELSE lnWinners[r]]
LnParticipantsAfterDraw(rnd) ==
    [k \in DOMAIN lnParticipants |-> IF k = <<lnRound, rnd % 100>> THEN {}
                                      ELSE lnParticipants[k]]
LnLotteryAfterDraw ==
    [r \in RoundIds |->
        IF r = lnRound + 1 /\ Unwrap(lnLottery[lnRound]).repeat
        THEN Some([Unwrap(lnLottery[lnRound]) EXCEPT !.start = block_number + 1])
        ELSE lnLottery[r]]
\* the winner records a successful set_block_result(block, result) leaves
GaWinnersAfterResult(block, result) ==
    [g \in GaIds |->
        IF \E i \in 1 .. Len(gaBlockToGiveaway[block]) : gaBlockToGiveaway[block][i] = g
        THEN LET i == CHOOSE i \in 1 .. Len(gaBlockToGiveaway[block]) :
                          gaBlockToGiveaway[block][i] = g
                 n == gaTotalParticipantByGiveaway[g]
                 low == result[i] % TwoPow32
             IN  IF n = 0 THEN Unwrap(gaGiveaway[g]).creator
                 ELSE gaParticipants[<<g, (IF low % n = 0 THEN n ELSE low % n) - 1>>]
        ELSE gaRoundWinner[g]]

\* C18: selection is replay-deterministic: the state after the lucky-number
\* hook is a function of the state before it and of the value the randomness
\* source returned, and the state after set_block_result is a function of
\* the state before it and of the delivered batch, so two runs from the same
\* state with the same input record the same winners and end in the same
\* state.
C18_SelectionIsAFunctionOfStateAndInput ==
    [][ /\ ret'.op = "on_initialize" =>
              \A rnd \in RandomValues :
                  ln_on_initialize_call(rnd) =>
                      /\ block_number' = block_number + 1
                      /\ balance' = balance
                      /\ lnUserPredictionValue' = lnUserPredictionValue
                      /\ IF /\ IsSome(lnLottery[lnRound])
                            /\ payout_block(Unwrap(lnLottery[lnRound])) <= block_number + 1
                         THEN /\ lnWinners' = LnWinnersAfterDraw(rnd)
                              /\ lnParticipants' = LnParticipantsAfterDraw(rnd)
                              /\ lnLottery' = LnLotteryAfterDraw
                              /\ lnRound' = lnRound + 1
                              /\ ret'.number = rnd % 100
                         ELSE /\ UNCHANGED <<lnWinners, lnParticipants, lnLottery, lnRound>>
                              /\ ret'.err = "Idle"
        /\ ret'.op = "set_block_result" =>
              \A block \in GaResultBlocks, result \in ResultBatches :
                  ga_set_block_result_call(block, result) =>
                      /\ UNCHANGED <<balance, block_number, gaGiveawayIndex, gaGiveaway,
                                     gaParticipants, gaTotalParticipantByGiveaway>>
                      /\ IF /\ ~IsSome(gaBlockToResults[block])
                            /\ block < block_number
                            /\ Len(result) = Len(gaBlockToGiveaway[block])
                         THEN /\ ret'.err = "Ok"
                              /\ gaRoundWinner' = GaWinnersAfterResult(block, result)
                              /\ gaBlockToResults' =
                                   [gaBlockToResults EXCEPT ![block] = Some(result)]
                              /\ gaBlockToGiveaway' =
                                   [gaBlockToGiveaway EXCEPT ![block] = << >>]
                         ELSE /\ ret'.err # "Ok"
                              /\ UNCHANGED <<gaRoundWinner, gaBlockToResults,
                                             gaBlockToGiveaway>> ]_vars

\* the hook has just drawn a number somebody had chosen: the round has winners
C18_Witness ==
    /\ ret.op = "on_initialize"
    /\ ret.err = "Ok"
    /\ lnWinners[ret.round] # {}
    /\ lnParticipants[<<ret.round, 1 - ret.number>>] # {}

\* C19: the winner record of a round is written once: a set
\* RoundWinner[g] of giveaway is never changed; in lucky-number Winners[r]
\* is empty until the hook inserts it in the step that advances Round past
\* r, and afterwards it changes only by a paying claim_reward removing the
\* paid account.
C19_WinnerRecordWrittenOnce ==
    [][ /\ \A g \in GaIds :
              gaRoundWinner[g] # NoAccount => gaRoundWinner'[g] = gaRoundWinner[g]
        /\ \A r \in RoundIds :
              /\ r >= lnRound => lnWinners[r] = {}
              /\ lnWinners'[r] # lnWinners[r] =>
                    \/ /\ ret'.op = "on_initialize"
                       /\ r = lnRound
                       /\ lnRound' = r + 1
                    \/ /\ ret'.op = "claim_reward"
                       /\ ret'.err = "Ok"
                       /\ r = ret'.round
                       /\ r < lnRound
                       /\ lnWinners'[r] = lnWinners[r] \ {ret'.who}
                       /\ balance'[Pot] = balance[Pot] - ret'.amount ]_vars

\* the only winner of a resolved round has just been paid and removed
C19_Witness ==
    /\ pallet = "lucky-number"
    /\ ret.op = "claim_reward"
    /\ ret.err = "Ok"
    /\ ret.round < lnRound
    /\ ret.amount > 0
    /\ lnWinners[ret.round] = {}

\* C20: lucky-number: UserPredictionValue[round, (account, number)] is the
\* sum of the amounts of the account's successful buy_ticket(number, amount)
\* calls of that round; while the round is open an account that has bought
\* is a member of Participants[(round, number)], a set, so it occurs once.
C20_StakeIsSumOfPurchases ==
    /\ lnUserPredictionValue = lnStakeSum
    /\ \A a \in Accounts, number \in LnNumbers :
          lnStakeSum[<<lnRound, a, number>>] > 0 => a \in lnParticipants[<<lnRound, number>>]

\* an account has just bought a second ticket for the same number of the round
C20_Witness ==
    /\ pallet = "lucky-number"
    /\ ret.op = "buy_ticket"
    /\ ret.err = "Ok"
    /\ lnUserPredictionValue[<<ret.round, ret.who, ret.number>>] > ret.amount
    /\ lnParticipants[<<ret.round, ret.number>>] = {ret.who}

\* the funds in existence: minting is what raises them
TotalIssuance(bal) == bal["a1"] + bal["a2"] + bal[Pot]

\* C21: in every pallet the pot deposit is minted at most once, when the pot
\* is first used: a step mints funds only if the pot balance was zero
\* before it, and then it mints the pot deposit into the pot.
C21_PotDepositMintedOnlyIntoEmptyPot ==
    [][ TotalIssuance(balance') # TotalIssuance(balance) =>
          /\ balance[Pot] = 0
          /\ TotalIssuance(balance') = TotalIssuance(balance) + PotDeposit
          /\ balance'[Pot] >= PotDeposit ]_vars

\* C22: lucky-number: every round opened by start_lottery is eventually
\* resolved when heights keep advancing and the hook runs at every height:
\* from a state where round r is the current round and has a config (and a
\* next height and a next round index exist), a state is reached where Round
\* has advanced past r, which is when Winners[r] is recorded.
C22_OpenedRoundIsResolved ==
    \A r \in 0 .. MaxRound - 1 :
        (lnRound = r /\ IsSome(lnLottery[r]) /\ block_number < BlockNumberMax)
            ~> (lnRound > r)

\* round 0, opened by start_lottery, has just been resolved by the hook
C22_Witness ==
    /\ ret.op = "on_initialize"
    /\ ret.err = "Ok"
    /\ ret.round = 0
    /\ lnRound > 0
    /\ IsSome(lnLottery[0])
    /\ ~Unwrap(lnLottery[0]).repeat

\* the events of the last call hold a TicketBought
LtTicketBought(evs) == \E i \in DOMAIN evs : evs[i].kind = "TicketBought"

\* C23: lottery: buy_ticket returns Ok for every signed caller whether or not
\* the purchase succeeded; a failed purchase changes no storage and no
\* balance and emits no TicketBought; TicketBought is emitted exactly when
\* the caller was appended to the participant list and exactly the price of
\* the round moved from the caller to the pot.
C23_BuyTicketAlwaysOkAndAtomic ==
    [][ ret'.op = "buy_ticket" =>
          /\ ret'.err = "Ok"
          /\ ret'.detail \in {"Ok", "NotConfigured", "AlreadyEnded", "TooManyParticipants",
                               "InsufficientBalance", "ExistentialDeposit", "KeepAlive"}
          /\ LtTicketBought(events') <=> ret'.detail = "Ok"
          /\ ~LtTicketBought(events') =>
                /\ balance' = balance
                /\ ltParticipants' = ltParticipants
                /\ ltLottery' = ltLottery
                /\ ltLotteryIndex' = ltLotteryIndex
          /\ LtTicketBought(events') =>
                \E caller \in Accounts, kind \in LtKinds, index \in LtIndices,
                   selection \in LtSelections :
                    /\ events' = <<[kind |-> "TicketBought", lottery |-> kind,
                                    index |-> index, user |-> caller,
                                    selection |-> selection]>>
                    /\ IsSome(ltLottery[<<kind, index>>])
                    /\ ltParticipants' =
                          [ltParticipants EXCEPT ![<<kind, index, selection>>] =
                              Append(@, caller)]
                    /\ balance' =
                          [balance EXCEPT
                              ![caller] = @ - Unwrap(ltLottery[<<kind, index>>]).price,
                              ![Pot] = @ + Unwrap(ltLottery[<<kind, index>>]).price]
                    /\ ltLottery' = ltLottery
                    /\ ltLotteryIndex' = ltLotteryIndex ]_vars

\* a purchase has failed on the transfer and the call has returned Ok
C23_Witness ==
    /\ ret.op = "buy_ticket"
    /\ ret.err = "Ok"
    /\ ret.detail \in {"InsufficientBalance", "KeepAlive"}
    /\ events = << >>

\* C24: lottery: every round opened by start_lottery leaves the Open and
\* Locked states once the height reaches start + length + delay: from that
\* height on its slot has been freed or replaced by a successor that starts
\* there, so no stored config has a payout block that has been reached.
C24_NoRoundPendingAtPayoutBlock ==
    \A kind \in LtKinds, index \in LtIndices :
        IsSome(ltLottery[<<kind, index>>]) =>
            block_number < Unwrap(ltLottery[<<kind, index>>]).start
                             + Unwrap(ltLottery[<<kind, index>>]).length
                             + Unwrap(ltLottery[<<kind, index>>]).delay

\* C25: lucky-number: buy_ticket is accepted only while the round is open: at
\* every height h >= start + length of the current round it fails (with
\* AlreadyEnded once the number has passed its check) and no stake is
\* accepted.
C25_NoStakeFromEndOfSale ==
    [][ ( /\ ret'.op = "buy_ticket"
          /\ IsSome(lnLottery[lnRound])
          /\ block_number >= Unwrap(lnLottery[lnRound]).start
                                + Unwrap(lnLottery[lnRound]).length )
        => /\ ret'.err \in {"AlreadyEnded", "InvalidNumber"}
           /\ lnUserPredictionValue' = lnUserPredictionValue
           /\ lnParticipants' = lnParticipants
           /\ balance' = balance ]_vars

\* C26: lucky-number: the hook records Winners[r] and sets Round to r + 1 in
\* one step, and Round changes in no other step; when the round repeats,
\* Lottery[r + 1] is created in that step with start = n and the min_price,
\* length, delay, rate and repeat of round r; otherwise there is no config at
\* r + 1 and a later start_lottery is not refused with InProgress; Winners[r]
\* is not written while Round is r.
C26_ResolutionAdvancesRoundAtomically ==
    [][ /\ ( lnRound' # lnRound \/ (ret'.op = "on_initialize" /\ ret'.err = "Ok") ) =>
              /\ ret'.op = "on_initialize"
              /\ ret'.err = "Ok"
              /\ ret'.round = lnRound
              /\ lnRound' = lnRound + 1
              /\ IsSome(lnLottery[lnRound])
              /\ lnWinners' = [lnWinners EXCEPT ![lnRound] =
                                  lnParticipants[<<lnRound, ret'.number>>]]
              /\ IF Unwrap(lnLottery[lnRound]).repeat
                 THEN lnLottery' = [lnLottery EXCEPT ![lnRound + 1] =
                                       Some([Unwrap(lnLottery[lnRound]) EXCEPT
                                               !.start = block_number'])]
                 ELSE /\ lnLottery' = lnLottery
                      /\ ~IsSome(lnLottery'[lnRound'])
        /\ \A r \in RoundIds :
              (r >= lnRound /\ lnWinners'[r] # lnWinners[r]) => lnRound' = r + 1
        /\ \A r \in RoundIds : r >= lnRound' => lnWinners'[r] = {}
        /\ (ret'.op = "start_lottery" /\ ~IsSome(lnLottery[lnRound])) =>
              ret'.err \in {"Ok", "CannotSetRate"} ]_vars

\* the hook has just resolved a repeating round that has winners and has
\* created its successor, which starts at the height of the hook
C26_Witness ==
    /\ ret.op = "on_initialize"
    /\ ret.err = "Ok"
    /\ lnRound = ret.round + 1
    /\ lnWinners[ret.round] # {}
    /\ Unwrap(lnLottery[ret.round]).repeat
    /\ IsSome(lnLottery[lnRound])
    /\ Unwrap(lnLottery[lnRound]).start = block_number
    /\ Unwrap(lnLottery[lnRound]).start > Unwrap(lnLottery[ret.round]).start

\* C27: giveaway: once RoundWinner[g] is set, every participate(g) fails with
\* GiveawayEnded, and TotalParticipantByGiveaway[g] and Participants[g, *]
\* never change again.
C27_ResolvedGiveawayIsClosed ==
    [][ \A g \in GaIds :
          gaRoundWinner[g] # NoAccount =>
            /\ gaTotalParticipantByGiveaway'[g] = gaTotalParticipantByGiveaway[g]
            /\ \A i \in GaPositions : gaParticipants'[<<g, i>>] = gaParticipants[<<g, i>>]
            /\ ret'.op = "participate" =>
                  \A who \in Accounts :
                      ga_participate_call(who, g) => ret'.err = "GiveawayEnded" ]_vars

\* a participate of a giveaway that has participants and a winner has just
\* been refused
C27_Witness ==
    /\ ret.op = "participate"
    /\ ret.err = "GiveawayEnded"
    /\ \A g \in GaIds : IsSome(gaGiveaway[g]) =>
          /\ gaRoundWinner[g] # NoAccount
          /\ gaTotalParticipantByGiveaway[g] > 0

\* C28: giveaway: a successful set_block_result for a height processes every
\* giveaway queued at that height, for every queue length the bounded queue
\* allows: each queued giveaway has a RoundWinner record afterwards and the
\* queue of the height is empty.
C28_ResultResolvesWholeQueue ==
    [][ (ret'.op = "set_block_result" /\ ret'.err = "Ok") =>
          /\ gaBlockToGiveaway'[ret'.number] = << >>
          /\ \A i \in 1 .. Len(gaBlockToGiveaway[ret'.number]) :
                gaRoundWinner'[gaBlockToGiveaway[ret'.number][i]] # NoAccount ]_vars

\* C29: lottery: choose_ticket(total) returns None when total = 0; for every
\* total > 0, every MaxGenerateRandom and every sequence of values of the
\* randomness source it returns Some(i) with 0 <= i < total.
C29_ChosenTicketInRange ==
    ltChosen.called =>
        IF ltTotal = 0 THEN ltChosen.value = None
        ELSE /\ IsSome(ltChosen.value)
             /\ 0 <= Unwrap(ltChosen.value)
             /\ Unwrap(ltChosen.value) < ltTotal

\* a ticket has been chosen out of several after more than one draw
C29_Witness ==
    /\ ltChosen.called
    /\ ltTotal > 1
    /\ IsSome(ltChosen.value)
    /\ Len(ltChosen.seeds) > 1

\* the draws within a budget of b seeds, and the first of them below the bound
LtDrawBelowBound(seed) ==
    generate_random_number(seed) < U32Max - (U32Max % ltTotal)
LtFirstBelowBound(b) ==
    CHOOSE seed \in 0 .. b - 1 :
        /\ LtDrawBelowBound(seed)
        /\ \A earlier \in 0 .. seed - 1 : ~LtDrawBelowBound(earlier)
\* what a call with a budget of b draws returns and draws
LtChosenWithinBudget(b) ==
    /\ ltChosen.seeds = [k \in 1 .. Len(ltChosen.seeds) |-> k - 1]
    /\ Len(ltChosen.seeds) <= b
    /\ IF \E seed \in 0 .. b - 1 : LtDrawBelowBound(seed)
       THEN /\ Len(ltChosen.seeds) = LtFirstBelowBound(b) + 1
            /\ ltChosen.value = Some(generate_random_number(LtFirstBelowBound(b)) % ltTotal)
       ELSE /\ Len(ltChosen.seeds) = b
            /\ ltChosen.value = Some(generate_random_number(b - 1) % ltTotal)

\* C30 as stated: choose_ticket(total) with total > 0 draws for the seeds
\* 0, 1, 2, ... in order, makes at most MaxGenerateRandom draws, stops at the
\* first draw below u32::MAX - (u32::MAX mod total) and returns that draw
\* mod total; when no draw of the budget is below the bound it returns the
\* last draw mod total.
C30_DrawsWithinBudget ==
    (ltChosen.called /\ ltTotal > 0) => LtChosenWithinBudget(ltMaxGenerateRandom)

\* C30 amended: the same with a budget of max(1, MaxGenerateRandom) draws:
\* the draw for seed 0 is made also when MaxGenerateRandom is 0.
C30_DrawsWithinBudgetOfAtLeastOne ==
    (ltChosen.called /\ ltTotal > 0) =>
        LtChosenWithinBudget(IF ltMaxGenerateRandom = 0 THEN 1 ELSE ltMaxGenerateRandom)

\* the whole budget of three draws was used and none was below the bound
C30_Witness ==
    /\ ltChosen.called
    /\ ltTotal > 0
    /\ ltMaxGenerateRandom = BudgetMax
    /\ Len(ltChosen.seeds) = BudgetMax
    /\ \A seed \in 0 .. BudgetMax - 1 : ~LtDrawBelowBound(seed)

\* the draws of the value space that choose_ticket accepts and that select
\* ticket i out of total
LtAcceptedDrawsOf(total, i) ==
    {d \in 0 .. U32Max : d < lt_unbiased_bound(total) /\ lt_ticket_of_draw(d, total) = i}

\* C31: lottery: for every total >= 1 the acceptance bound MAX - (MAX mod
\* total) of choose_ticket is a multiple of total, so among the accepted
\* draws every residue 0 .. total - 1 occurs equally often (reduced width).
C31_AcceptedDrawsAreUnbiased ==
    ltTotal >= 1 =>
        /\ lt_unbiased_bound(ltTotal) % ltTotal = 0
        /\ lt_unbiased_bound(ltTotal) <= U32Max
        /\ \A i \in 0 .. ltTotal - 1 :
              Cardinality(LtAcceptedDrawsOf(ltTotal, i)) * ltTotal
                  = lt_unbiased_bound(ltTotal)

\* a call whose first draw was rejected as biased and whose second was accepted
C31_Witness ==
    /\ ltChosen.called
    /\ ltTotal > 1
    /\ Len(ltChosen.seeds) = 2
    /\ generate_random_number(0) >= lt_unbiased_bound(ltTotal)
    /\ generate_random_number(1) < lt_unbiased_bound(ltTotal)
    /\ ltChosen.value = Some(generate_random_number(1) % ltTotal)

\* the account has a non-empty external id for provider "Fractal"
GaVerified(who) == Len(didExternalIdAddress[<<who, "Fractal">>]) > 0

\* C32: giveaway: in a giveaway created with KYC Tier1, participate succeeds
\* only for an account that has a non-empty external id for provider
\* "Fractal" at the time of the call; for any other account a call inside
\* the giveaway's window fails with UserIsNotVerified and registers nothing,
\* also after remove_user_address has emptied the entry; a Tier0 giveaway
\* never fails on the registry.
C32_Tier1NeedsVerifiedAccount ==
    [][ ret'.op = "participate" =>
          \A who \in Accounts, g \in GaIds :
              (IsSome(gaGiveaway[g]) /\ ga_participate_call(who, g)) =>
                  /\ (Unwrap(gaGiveaway[g]).kyc = "Tier1" /\ ret'.err = "Ok")
                        => GaVerified(who)
                  /\ ( /\ Unwrap(gaGiveaway[g]).kyc = "Tier1"
                       /\ ~GaVerified(who)
                       /\ Unwrap(gaGiveaway[g]).start <= block_number
                       /\ block_number <= Unwrap(gaGiveaway[g]).end )
                        => /\ ret'.err = "UserIsNotVerified"
                           /\ gaStorage' = gaStorage
                  /\ Unwrap(gaGiveaway[g]).kyc = "Tier0"
                        => ret'.err # "UserIsNotVerified" ]_vars

\* an account that joined a Tier1 giveaway while verified has just been
\* refused after its external id was removed
C32_Witness ==
    /\ ret.op = "participate"
    /\ ret.err = "UserIsNotVerified"
    /\ \E who \in DidUsers :
          /\ ~GaVerified(who)
          /\ \E g \in GaIds :
                /\ IsSome(gaGiveaway[g])
                /\ Unwrap(gaGiveaway[g]).kyc = "Tier1"
                /\ gaParticipants[<<g, 0>>] = who

\* C33: lucky-number: the stakes and participant entries of a resolved round
\* are frozen for purchases: for every round r < Round no buy_ticket and no
\* start_lottery changes UserPredictionValue[r, *] or Participants[(r, *)];
\* a purchase affects the current round only.
C33_ResolvedRoundFrozenForPurchases ==
    [][ ret'.op \in {"buy_ticket", "start_lottery"} =>
          \A r \in RoundIds :
              r # lnRound =>
                  /\ \A a \in Accounts, n \in LnNumbers :
                        lnUserPredictionValue'[<<r, a, n>>] = lnUserPredictionValue[<<r, a, n>>]
                  /\ \A n \in LnNumbers :
                        lnParticipants'[<<r, n>>] = lnParticipants[<<r, n>>] ]_vars

\* a ticket has just been bought in round 1 while round 0, resolved, keeps
\* the stake of a purchase
C33_Witness ==
    /\ ret.op = "buy_ticket"
    /\ ret.err = "Ok"
    /\ lnRound = 1
    /\ ret.round = 1
    /\ \E a \in Accounts, n \in LnNumbers :
          /\ lnUserPredictionValue[<<0, a, n>>] > 0
          /\ lnUserPredictionValue[<<1, ret.who, ret.number>>] > 0

\* the sum of the values of f over the keys in S
RECURSIVE SumOver(_, _)
SumOver(f, S) ==
    IF S = {} THEN 0
    ELSE LET k == CHOOSE k \in S : TRUE IN f[k] + SumOver(f, S \ {k})

\* the deposit start_lottery has put into the pot: none before the first round
LnPotDeposited == IF IsSome(lnLottery[0]) THEN PotDeposit ELSE 0

\* C34: lucky-number: in every reachable state the pot balance equals the
\* pot deposit (made by the first start_lottery) plus the sum of the amounts
\* of all accepted buy_ticket calls minus the sum of the rewards paid by the
\* successful claim_reward calls; failed purchases and claims add nothing.
C34_PotIsDepositPlusStakesMinusRewards ==
    pallet = "lucky-number" =>
        balance[Pot] = LnPotDeposited + SumOver(lnStakeSum, DOMAIN lnStakeSum) - lnPaid

\* a reward has been paid out of a pot that holds stakes
C34_Witness ==
    /\ pallet = "lucky-number"
    /\ ret.op = "claim_reward"
    /\ ret.amount > 0
    /\ lnPaid > 0
    /\ lnPaid = ret.amount
    /\ SumOver(lnStakeSum, DOMAIN lnStakeSum) > lnStakeSum[<<ret.round, ret.who, ret.number>>]
    /\ lnClaimLog[<<ret.who, ret.round>>] \in {"paid", "paid_after_failure"}

\* C35: lucky-number: at the resolution of round r the hook draws number =
\* random mod 100, always in 0 .. 99, the range buy_ticket accepts; it sets
\* Winners[r] to exactly the accounts registered under (r, number) and
\* removes that participant entry, leaving the entries of the other numbers;
\* an account registered under other numbers only is not in Winners[r], and
\* with nobody on the drawn number Winners[r] is empty.
C35_WinnersAreTheHoldersOfTheDrawnNumber ==
    [][ /\ (ret'.op = "on_initialize" /\ ret'.err = "Ok") =>
              /\ \E rnd \in RandomValues : ret'.number = rnd % 100
              /\ ret'.number \in 0 .. 99
              /\ lnWinners'[lnRound] =
                    LnParticipantsGet(lnParticipants, lnRound, ret'.number)
              /\ LnParticipantsGet(lnParticipants', lnRound, ret'.number) = {}
              /\ \A k \in DOMAIN lnParticipants :
                    k # <<lnRound, ret'.number>> => lnParticipants'[k] = lnParticipants[k]
              /\ \A a \in Accounts :
                    a \in lnWinners'[lnRound] <=>
                        a \in LnParticipantsGet(lnParticipants, lnRound, ret'.number)
        /\ (ret'.op = "buy_ticket" /\ ret'.err = "Ok") => ret'.number \in 0 .. 99 ]_vars

\* a round has just been resolved with nobody on the drawn number and a
\* participant on another number: there is no winner
C35_Witness ==
    /\ ret.op = "on_initialize"
    /\ ret.err = "Ok"
    /\ lnRound = ret.round + 1
    /\ lnWinners[ret.round] = {}
    /\ \E n \in LnNumbers : n # ret.number /\ lnParticipants[<<ret.round, n>>] # {}

\* C36: lucky-number: a successful claim pays the winner rate times the
\* amount the winner staked on the drawn number of the round; a claim_reward
\* that passes another number, one the winner has no stake on, pays nothing
\* and does not consume the winner's claim. (A winner is registered under
\* the drawn number with a positive stake, so a number without a stake of
\* the winner is not the drawn number.)
C36_ClaimWithOtherNumberKeepsTheClaim ==
    [][ ( /\ ret'.op = "claim_reward"
          /\ ret'.err = "Ok"
          /\ ret'.who \in lnWinners[ret'.round]
          /\ lnUserPredictionValue[<<ret'.round, ret'.who, ret'.number>>] = 0 )
        => /\ balance' = balance
           /\ lnWinners'[ret'.round] = lnWinners[ret'.round] ]_vars

\* C37: lucky-number: every accepted ticket purchase stakes at least the
\* min_price of the round: a buy_ticket with amount < Lottery[Round].min_price
\* is not accepted, registers no participant and moves no funds.
C37_AcceptedStakeAtLeastMinPrice ==
    [][ (ret'.op = "buy_ticket" /\ ret'.err = "Ok") =>
          /\ IsSome(lnLottery[lnRound])
          /\ ret'.amount >= Unwrap(lnLottery[lnRound]).min_price ]_vars

\* C38: giveaway: in every reachable state and for every giveaway g,
\* Participants[g, k] is defined exactly for k in 0 .. TotalParticipantByGiveaway[g] - 1,
\* so the winner lookup of set_block_result never meets a missing entry, and
\* when the count is positive the recorded winner is an account stored as a
\* participant of g.
C38_ParticipantsMatchTheCounter ==
    /\ \A g \in GaIds, k \in GaPositions :
          gaParticipants[<<g, k>>] # NoAccount <=> k < gaTotalParticipantByGiveaway[g]
    /\ \A g \in GaIds : gaTotalParticipantByGiveaway[g] <= Cardinality(GaPositions)
    /\ ret.op = "set_block_result" => ret.err # "Panic"
    /\ \A g \in GaIds :
          (gaRoundWinner[g] # NoAccount /\ gaTotalParticipantByGiveaway[g] > 0) =>
              \E k \in 0 .. gaTotalParticipantByGiveaway[g] - 1 :
                  gaParticipants[<<g, k>>] = gaRoundWinner[g]

\* a giveaway with three participants has been resolved by a result whose
\* low bits are not a multiple of three
C38_Witness ==
    /\ ret.op = "set_block_result"
    /\ ret.err = "Ok"
    /\ \E g \in GaIds :
          /\ gaTotalParticipantByGiveaway[g] = 3
          /\ gaRoundWinner[g] = gaParticipants[<<g, 0>>]
          /\ gaParticipants[<<g, 0>>] # gaParticipants[<<g, 2>>]

\* C39: giveaway: TotalParticipantByGiveaway[g] never exceeds max_join of
\* the giveaway; a participate call when the count equals max_join fails
\* (with TooManyParticipants once it reaches the capacity check) and writes
\* neither a participant entry nor the counter.
C39_CounterNeverExceedsMaxJoin ==
    [][ /\ \A g \in GaIds :
              IsSome(gaGiveaway'[g]) =>
                  gaTotalParticipantByGiveaway'[g] <= Unwrap(gaGiveaway'[g]).max_join
        /\ ret'.op = "participate" =>
              \A who \in Accounts, g \in GaIds :
                  ( /\ IsSome(gaGiveaway[g])
                    /\ gaTotalParticipantByGiveaway[g] = Unwrap(gaGiveaway[g]).max_join
                    /\ ga_participate_call(who, g) )
                  => /\ ret'.err # "Ok"
                     /\ gaParticipants' = gaParticipants
                     /\ gaTotalParticipantByGiveaway' = gaTotalParticipantByGiveaway
                     /\ ( /\ Unwrap(gaGiveaway[g]).start <= block_number
                          /\ block_number <= Unwrap(gaGiveaway[g]).end
                          /\ Unwrap(gaGiveaway[g]).kyc = "Tier1" => GaVerified(who)
                          /\ ~gaGiveawayToUser[<<g, who>>] )
                          => ret'.err = "TooManyParticipants" ]_vars

\* a participate of a full giveaway has just been refused
C39_Witness ==
    /\ ret.op = "participate"
    /\ ret.err = "TooManyParticipants"
    /\ \E g \in GaIds :
          /\ IsSome(gaGiveaway[g])
          /\ gaTotalParticipantByGiveaway[g] = Unwrap(gaGiveaway[g]).max_join
          /\ gaParticipants[<<g, Unwrap(gaGiveaway[g]).max_join - 1>>] # NoAccount

\* giveaway g is in the queue of height h
GaQueuedAt(g, h) ==
    \E i \in 1 .. Len(gaBlockToGiveaway[h]) : gaBlockToGiveaway[h][i] = g

====
